---- MODULE Spec2Model ----
(***************************************************************************)
(* Model of containerd/errdefs: the canonical error kinds (errors.go), the *)
(* chain resolver Resolve/firstError (resolve.go), the membership testers  *)
(* Is<Kind>/isInterface (is.go) and the HTTP mapping FromHTTP/ToHTTP       *)
(* (http.go), and the gRPC mapping ToGRPC/FromGRPC/ToNative with its       *)
(* detail protocol (errgrpc/grpc.go).                                      *)
(*                                                                         *)
(* An error value is a record tagged by its dynamic Go type (field t):     *)
(*   "nil"                 the nil error interface                         *)
(*   "Error"               errdefs.Error (int8), field v                   *)
(*   "context"             context.Canceled / context.DeadlineExceeded     *)
(*   "errorString"         errors.New(msg)                                 *)
(*   "customMessage"       errdefs.customMessage{msg, err}                 *)
(*   "wrapError"           fmt.Errorf("<msg>: %w", cause)                  *)
(*   "joinError"           errors.Join(errs...) / fmt.Errorf("%w .. %w")   *)
(*   "typed"               an error type of a caller: it declares the      *)
(*                         capability markers in marks and exposes cause   *)
(*                         through Unwrap() error (Nil: nothing to unwrap) *)
(*   "errUnexpectedStatus" errdefs.errUnexpectedStatus{status}             *)
(*   "status"              a gRPC status error: code, message, details     *)
(*   "grpcWrapError"       errgrpc.wrapError{error, err}                   *)
(*   "grpcWrapErrors"      errgrpc.wrapErrors{error, errs}                 *)
(*   "stack"               *stack.Error / *stack: callers, helpers         *)
(*   "errdefsJoinError"    errdefs.joinError{errs} of join.go              *)
(*   "errorValue"          errdefs.errorValue wrapping one error           *)
(*   "collapsedError"      types.CollapsedError(err, collapsed...)         *)
(* A text is a sequence of string tokens; concatenation is \o.             *)
(***************************************************************************)
EXTENDS Integers, Sequences, FiniteSets, TLC

VARIABLES
    err,    \* the error value the operations are applied to
    op,     \* the operation that produced this state
    arg,    \* WithMessage: <<receiver, msg>>; ToHTTP(FromHTTP): <<statusCode>>; else <<>>
    code,   \* FromHTTP: statusCode; ToHTTP: the returned status; else 0
    res,    \* the error an operation returned (Nil when it returns none)
    is,     \* Is: the testers that returned true on err; else {}
    gerr,   \* ToGRPC: the error it returned; or the gRPC status received
    heap,   \* the backing arrays of the helper slices held by contexts
    ctxs,   \* the contexts derived by WithHelper: the helper slice of each
    trace,  \* the trace the first getDecoded of the captured stack node built
    osArgs, \* os.Args of the process
    decoded, \* the field decoded of the stack node read concurrently: 0 is nil
    traces, \* the Trace values allocated by getDecoded; decoded points here
    readers, \* the goroutines calling getDecoded: where each is, and its locals
    js      \* MarshalJSON and UnmarshalJSON: the bytes and the receiving node

\* The state of the stack package.
svars == <<heap, ctxs, trace, osArgs, decoded, traces, readers, js>>

\* The state of the decoding of one stack node.
dvars == <<decoded, traces, readers, js>>

vars == <<err, op, arg, code, res, is, gerr, heap, ctxs, trace, osArgs,
          decoded, traces, readers, js>>

----------------------------------------------------------------------------
(* Values *)

Nil == [t |-> "nil"]

\* The nil *Trace
NoTrace == [t |-> "nil"]

\* No unmarshalling under way.
NoJSON == [state |-> "none", bytes |-> <<>>, depth |-> 0, recv |-> NoTrace, redecoded |-> FALSE]

\* No goroutine reads a stack node and none is marshalled.
DecodeIdle ==
    /\ decoded = 0
    /\ traces = <<>>
    /\ readers = <<>>
    /\ js = NoJSON

Error(v) == [t |-> "Error", v |-> v]

ErrUnknown == Error(0)
ErrInvalidArgument == Error(1)
ErrNotFound == Error(2)
ErrAlreadyExists == Error(3)
ErrPermissionDenied == Error(4)
ErrResourceExhausted == Error(5)
ErrFailedPrecondition == Error(6)
ErrConflict == Error(7)
ErrNotModified == Error(8)
ErrAborted == Error(9)
ErrOutOfRange == Error(10)
ErrNotImplemented == Error(11)
ErrInternal == Error(12)
ErrUnavailable == Error(13)
ErrDataLoss == Error(14)
ErrUnauthenticated == Error(15)

Canceled == [t |-> "context", name |-> "Canceled"]

DeadlineExceeded == [t |-> "context", name |-> "DeadlineExceeded"]

ErrCanceled == Canceled

customMessage(msg, e) == [t |-> "customMessage", msg |-> msg, err |-> e]

errUnexpectedStatus(status) == [t |-> "errUnexpectedStatus", status |-> status]

\* The marker methods errUnexpectedStatus declares.
errUnexpectedStatusMarks == {"unknown"}

errorString(msg) == [t |-> "errorString", msg |-> msg]

wrapError(msg, cause) == [t |-> "wrapError", msg |-> msg, cause |-> cause]

joinError(sep, errs) == [t |-> "joinError", sep |-> sep, errs |-> errs]

typed(marks, msg, cause) == [t |-> "typed", marks |-> marks, msg |-> msg, cause |-> cause]

----------------------------------------------------------------------------
(* The chain walker: what a value exposes *)

\* e's dynamic type has the marker method m (the type switch case `m`).
implements(e, m) ==
    \/ e.t = "typed" /\ m \in e.marks
    \/ e.t = "errUnexpectedStatus" /\ m \in errUnexpectedStatusMarks

\* e's dynamic type has Unwrap() error.
hasUnwrap(e) ==
    e.t \in {"customMessage", "wrapError", "typed", "grpcWrapError", "errorValue"}

\* customMessage without a cause to unwrap.
customMessageUnwrapNil(m) == Nil

customMessageUnwrap(m) == m.err

Unwrap(e) == IF e.t = "customMessage" THEN customMessageUnwrap(e) ELSE e.cause

\* e's dynamic type has Unwrap() []error.
hasUnwrapAll(e) ==
    e.t \in {"joinError", "grpcWrapErrors", "errdefsJoinError", "collapsedError"}

----------------------------------------------------------------------------
(* errors.go *)

ErrorString(e) ==
    IF e = ErrInvalidArgument THEN <<"invalid argument">>
    ELSE IF e = ErrNotFound THEN <<"not found">>
    ELSE IF e = ErrAlreadyExists THEN <<"already exists">>
    ELSE IF e = ErrPermissionDenied THEN <<"permission denied">>
    ELSE IF e = ErrResourceExhausted THEN <<"resource exhausted">>
    ELSE IF e = ErrFailedPrecondition THEN <<"failed precondition">>
    ELSE IF e = ErrConflict THEN <<"conflict">>
    ELSE IF e = ErrNotModified THEN <<"not modified">>
    ELSE IF e = ErrAborted THEN <<"aborted">>
    ELSE IF e = ErrOutOfRange THEN <<"out of range">>
    ELSE IF e = ErrNotImplemented THEN <<"not implemented">>
    ELSE IF e = ErrInternal THEN <<"internal">>
    ELSE IF e = ErrUnavailable THEN <<"unavailable">>
    ELSE IF e = ErrDataLoss THEN <<"unauthenticated">>
    ELSE IF e = ErrUnauthenticated THEN <<"unauthenticated">>
    ELSE <<"unknown">>

WithMessage(e, msg) == customMessage(msg, e)


customMessageError(m) == m.msg

\* errUnexpectedStatus.Error()
errUnexpectedStatusError(e) == <<"unexpected status ", ToString(e.status)>>

----------------------------------------------------------------------------
(* stack.go: captures and traces *)

Version == "dev"

Revision == "dirty"

\* os.Getpid()
Pid == 4242

\* runtime.Callers: the program counters of the running goroutine, innermost
\* first. The frames of the package itself come first; the counters of the
\* calling program are small integers. A function of the calling program has
\* two call sites, pc and pc + 10.
pcRuntimeCallers == 100
pcCallers == 101
pcPublicCallers == 102
pcJoinErrors == 103
pcJoin == 104
pcWithStack == 105
pcErrStack == 106

\* runtime.CallersFrames: the function a program counter lies in.
FuncName(pc) ==
    CASE pc = pcRuntimeCallers -> "runtime.Callers"
      [] pc = pcCallers -> "stack.callers"
      [] pc = pcPublicCallers -> "stack.Callers"
      [] pc = pcJoinErrors -> "stack.joinErrors"
      [] pc = pcJoin -> "stack.Join"
      [] pc = pcWithStack -> "stack.WithStack"
      [] pc = pcErrStack -> "stack.ErrStack"
      [] pc % 10 = 1 -> "main.main"
      [] pc % 10 = 2 -> "app.handler"
      [] pc % 10 = 3 -> "app.H1"
      [] pc % 10 = 4 -> "app.H2"
      [] pc % 10 = 5 -> "app.H3"
      [] pc % 10 = 6 -> "app.H4"
      [] pc % 10 = 7 -> "app.H5"
      [] pc % 10 = 8 -> "app.H6"
      [] OTHER -> "app.other"

\* Frame{Name, File, Line} of a program counter
Frame(pc) == [Name |-> FuncName(pc), File |-> "app.go", Line |-> pc]

\* const depth = 32
depth == 32

\* A nil slice, and a slice of the array a of the heap: length n, capacity c.
NilSlice == [a |-> 0, n |-> 0, c |-> 0]

\* The elements of the slice sl in the heap h.
Elems(h, sl) == IF sl.n = 0 THEN <<>> ELSE SubSeq(h[sl.a], 1, sl.n)

\* The capacity append gives a []uintptr that has to grow (small slices).
GrowCap(c) == IF c = 0 THEN 1 ELSE 2 * c

\* append(sl, x): the element is written into the array of sl when it has
\* room, else into a new array holding a copy. Gives the heap and the slice.
AppendSlice(h, sl, x) ==
    IF sl.n < sl.c
    THEN [heap |-> [h EXCEPT ![sl.a][sl.n + 1] = x],
          slice |-> [sl EXCEPT !.n = sl.n + 1]]
    ELSE LET arr == Elems(h, sl) \o <<x>> \o [i \in 1..(GrowCap(sl.c) - sl.n - 1) |-> 0]
         IN  [heap |-> Append(h, arr),
              slice |-> [a |-> Len(h) + 1, n |-> sl.n + 1, c |-> GrowCap(sl.c)]]

\* &stack{callers: pcs[0:n]} / &Error{callers: pcs[0:n]}
stackNode(pcs, helpers) == [t |-> "stack", callers |-> pcs, helpers |-> helpers]

\* callers(skip): at most depth counters of the goroutine's stack goroutine,
\* after skip of them.
callers(skip, goroutine) ==
    LET rest == SubSeq(goroutine, skip + 1, Len(goroutine))
    IN  stackNode(IF Len(rest) > depth THEN SubSeq(rest, 1, depth) ELSE rest, NilSlice)

\* The first loop of getDecoded leaving after the first helper counter.
helperFunctionsHeadOnly(pcs) ==
    IF pcs = <<>> THEN {} ELSE {Frame(Head(pcs)).Name}

\* The first loop of getDecoded: the functions of the helper counters.
RECURSIVE helperFunctions(_)
helperFunctions(pcs) ==
    IF pcs = <<>> THEN {}
    ELSE {Frame(Head(pcs)).Name} \cup helperFunctions(Tail(pcs))

\* The second loop of getDecoded: the frames of the callers whose function
\* is not a helper.
RECURSIVE decodeFrames(_, _)
decodeFrames(pcs, helpers) ==
    IF pcs = <<>> THEN <<>>
    ELSE (IF Frame(Head(pcs)).Name \in helpers THEN <<>> ELSE <<Frame(Head(pcs))>>)
         \o decodeFrames(Tail(pcs), helpers)

\* Trace{Version, Revision, Cmdline, Frames, Pid}
Trace(version, revision, cmdline, frames, pid) ==
    [Version |-> version, Revision |-> revision, Cmdline |-> cmdline,
     Frames |-> frames, Pid |-> pid]

\* The trace getDecoded builds for the node s when the heap is h.
buildTrace(h, s, args) ==
    Trace(Version, Revision, args,
          decodeFrames(s.callers, helperFunctions(Elems(h, s.helpers))), Pid)

\* Frame.Format with %+v / Frame.WriteTo
RECURSIVE framesText(_)
framesText(frames) ==
    IF frames = <<>> THEN <<>>
    ELSE LET f == Head(frames)
         IN  <<f.Name, "\n\t", f.File, ":", ToString(f.Line), "\n">> \o framesText(Tail(frames))

\* strings.Join(elems, " ")
RECURSIVE stringsJoin(_)
stringsJoin(elems) ==
    IF elems = <<>> THEN <<>>
    ELSE IF Len(elems) = 1 THEN elems
    ELSE <<Head(elems), " ">> \o stringsJoin(Tail(elems))

\* (*stack).Format: the trace under %+v, nothing under any other verb
stackFormat(tr, plus) ==
    IF plus
    THEN <<ToString(tr.Pid), " ", tr.Version, " ">> \o stringsJoin(tr.Cmdline) \o <<"\n">>
         \o framesText(tr.Frames) \o <<"\n">>
    ELSE <<>>

\* (*stack).Error(): fmt.Sprintf("%+v", s.getDecoded())
stackError(tr) ==
    <<"&{Version:", tr.Version, " Revision:", tr.Revision, " Cmdline:[">>
    \o stringsJoin(tr.Cmdline) \o <<"] Frames:[">> \o framesText(tr.Frames)
    \o <<"] Pid:", ToString(tr.Pid), "}">>

\* types.CollapsibleError: the types with a CollapseError method
isCollapsible(e) == e.t = "stack"

\* errdefs.joinError{errs} of join.go
errdefsJoinError(errs) == [t |-> "errdefsJoinError", errs |-> errs]

\* errdefs.errorValue{e}: one wrapped error
errorValue(e) == [t |-> "errorValue", cause |-> e]

\* types.CollapsedError(err, collapsed...): Unwrap() []error gives err and
\* then the collapsed errors.
CollapsedError(e, collapsed) == [t |-> "collapsedError", errs |-> <<e>> \o collapsed]

----------------------------------------------------------------------------
(* Error() and fmt *)

\* The Error() method of a value, by its dynamic type.
RECURSIVE Text(_)
RECURSIVE joinText(_, _)
RECURSIVE FormatV(_, _)
RECURSIVE joinErrorFormat(_, _, _)
RECURSIVE joinErrorFormatAll(_, _, _)
Text(e) ==
    IF e.t = "Error" THEN ErrorString(e)
    ELSE IF e.t = "customMessage" THEN customMessageError(e)
    ELSE IF e.t = "context"
        THEN IF e = Canceled THEN <<"context canceled">>
             ELSE <<"context deadline exceeded">>
    ELSE IF e.t = "wrapError" THEN e.msg \o <<": ">> \o FormatV(e.cause, FALSE)
    ELSE IF e.t = "joinError" THEN joinText(e.sep, e.errs)
    ELSE IF e.t = "errUnexpectedStatus" THEN errUnexpectedStatusError(e)
    ELSE IF e.t \in {"grpcWrapError", "grpcWrapErrors"} THEN Text(e.error)
    ELSE IF e.t = "status"
        THEN <<"rpc error: code = ", e.code, " desc = ">> \o e.message
    ELSE IF e.t = "stack" THEN stackError(buildTrace(heap, e, osArgs))
    ELSE IF e.t = "errdefsJoinError" THEN FormatV(e, FALSE)
    ELSE IF e.t = "errorValue" THEN FormatV(e, FALSE)
    ELSE IF e.t = "collapsedError" THEN Text(e.errs[1])
    ELSE e.msg

joinText(sep, errs) ==
    IF errs = <<>> THEN <<>>
    ELSE IF Len(errs) = 1 THEN Text(Head(errs))
    ELSE Text(Head(errs)) \o <<sep>> \o joinText(sep, Tail(errs))

\* joinError.Format printing the collapsible members under every verb.
joinErrorFormatAll(errs, plus, first) ==
    IF errs = <<>> THEN <<>>
    ELSE (IF first THEN <<>> ELSE <<"\n">>)
         \o FormatV(Head(errs), plus)
         \o joinErrorFormatAll(Tail(errs), plus, FALSE)

\* The loop of joinError.Format: plus is the '+' flag of %v, first tells that
\* nothing was printed yet.
joinErrorFormat(errs, plus, first) ==
    IF errs = <<>> THEN <<>>
    ELSE IF ~plus /\ isCollapsible(Head(errs))
        THEN joinErrorFormat(Tail(errs), plus, first)
    ELSE (IF first THEN <<>> ELSE <<"\n">>)
         \o FormatV(Head(errs), plus)
         \o joinErrorFormat(Tail(errs), plus, FALSE)

\* The members of a collapsed error after the first, under %+v.
RECURSIVE collapsedFormat(_)
collapsedFormat(errs) ==
    IF errs = <<>> THEN <<>>
    ELSE <<"\n">> \o FormatV(Head(errs), TRUE) \o collapsedFormat(Tail(errs))

\* fmt.Sprintf("%v", e) and, with plus, fmt.Sprintf("%+v", e): the Format
\* method of the types that have one, Error() for the others.
FormatV(e, plus) ==
    IF e.t = "stack" THEN stackFormat(buildTrace(heap, e, osArgs), plus)
    ELSE IF e.t = "errdefsJoinError" THEN joinErrorFormat(e.errs, plus, TRUE)
    ELSE IF e.t = "errorValue"
        THEN IF ~plus /\ isCollapsible(e.cause) THEN <<>> ELSE FormatV(e.cause, plus)
    ELSE IF e.t = "collapsedError"
        THEN FormatV(e.errs[1], plus)
             \o (IF plus THEN collapsedFormat(Tail(e.errs)) ELSE <<>>)
    ELSE Text(e)

----------------------------------------------------------------------------
(* resolve.go *)

\* The two switch statements at the top of firstError's loop: the value a
\* node resolves to by itself, Nil when no case before the Unwrap cases
\* applies.
matchNode(e) ==
    IF e = Canceled \/ e = DeadlineExceeded THEN e
    ELSE IF e.t = "Error" THEN e
    ELSE IF implements(e, "unknown") THEN ErrUnknown
    ELSE IF implements(e, "invalidParameter") THEN ErrInvalidArgument
    ELSE IF implements(e, "notFound") THEN ErrNotFound
    ELSE IF implements(e, "forbidden") THEN ErrPermissionDenied
    ELSE IF implements(e, "conflict") THEN ErrConflict
    ELSE IF implements(e, "notModified") THEN ErrNotModified
    ELSE IF implements(e, "notImplemented") THEN ErrNotImplemented
    ELSE IF implements(e, "system") THEN ErrInternal
    ELSE IF implements(e, "unavailable") THEN ErrUnavailable
    ELSE IF implements(e, "dataLoss") THEN ErrDataLoss
    ELSE IF implements(e, "unauthorized") THEN ErrUnauthenticated
    ELSE IF implements(e, "deadlineExceeded") THEN DeadlineExceeded
    ELSE IF implements(e, "cancelled") THEN Canceled
    ELSE Nil

RECURSIVE firstError(_)
RECURSIVE firstErrorRange(_)

\* firstErrorRange with the loop returning at the first member, resolved or not.
firstErrorRangeHeadOnly(errs) ==
    IF errs = <<>> THEN Nil ELSE firstError(Head(errs))

\* firstErrorRange with the members taken from the last to the first.
RECURSIVE firstErrorRangeLastWins(_)
firstErrorRangeLastWins(errs) ==
    IF errs = <<>> THEN Nil
    ELSE LET fe == firstErrorRangeLastWins(Tail(errs))
         IN  IF fe # Nil THEN fe ELSE firstError(Head(errs))

\* firstError with the single cause followed before the node itself is tested.
firstErrorCauseFirst(e) ==
    IF e = Nil THEN Nil
    ELSE IF hasUnwrap(e) /\ Unwrap(e) # Nil /\ firstError(Unwrap(e)) # Nil
        THEN firstError(Unwrap(e))
    ELSE IF matchNode(e) # Nil THEN matchNode(e)
    ELSE IF hasUnwrapAll(e) THEN firstErrorRange(e.errs)
    ELSE Nil

firstError(e) ==
    IF e = Nil THEN Nil
    ELSE IF matchNode(e) # Nil THEN matchNode(e)
    ELSE IF hasUnwrap(e)
        THEN IF Unwrap(e) = Nil THEN Nil ELSE firstError(Unwrap(e))
    ELSE IF hasUnwrapAll(e) THEN firstErrorRange(e.errs)
    ELSE Nil

\* The range loop of the Unwrap() []error case.
firstErrorRange(errs) ==
    IF errs = <<>> THEN Nil
    ELSE LET fe == firstError(Head(errs))
         IN  IF fe # Nil THEN fe ELSE firstErrorRange(Tail(errs))

\* Resolve without the escalation of nil to ErrUnknown.
ResolveNoEscalation(e) ==
    IF e = Nil THEN Nil ELSE firstError(e)

Resolve(e) ==
    IF e = Nil THEN Nil
    ELSE IF firstError(e) = Nil THEN ErrUnknown
    ELSE firstError(e)

----------------------------------------------------------------------------
(* is.go *)

\* errors.Is of the standard library, as the testers call it: a pre-order
\* walk comparing every node with target (no modelled type has an Is method).
RECURSIVE errorsIsWalk(_, _)
RECURSIVE errorsIsRange(_, _)
errorsIsWalk(e, target) ==
    IF e = Nil THEN FALSE
    ELSE IF e = target THEN TRUE
    ELSE IF hasUnwrap(e)
        THEN IF Unwrap(e) = Nil THEN FALSE ELSE errorsIsWalk(Unwrap(e), target)
    ELSE IF hasUnwrapAll(e) THEN errorsIsRange(e.errs, target)
    ELSE FALSE

\* errors.Is looking at the first member of a join only.
errorsIsRangeHeadOnly(errs, target) ==
    IF errs = <<>> THEN FALSE ELSE errorsIsWalk(Head(errs), target)

errorsIsRange(errs, target) ==
    IF errs = <<>> THEN FALSE
    ELSE IF errorsIsWalk(Head(errs), target) THEN TRUE
    ELSE errorsIsRange(Tail(errs), target)

errorsIs(e, target) ==
    IF e = Nil \/ target = Nil THEN e = target ELSE errorsIsWalk(e, target)

\* isInterface[T], T the marker interface named m.
RECURSIVE isInterface(_, _)
RECURSIVE isInterfaceRange(_, _)
isInterface(m, e) ==
    IF e = Nil THEN FALSE
    ELSE IF implements(e, m) THEN TRUE
    ELSE IF hasUnwrap(e)
        THEN IF Unwrap(e) = Nil THEN FALSE ELSE isInterface(m, Unwrap(e))
    ELSE IF hasUnwrapAll(e) THEN isInterfaceRange(m, e.errs)
    ELSE FALSE

isInterfaceRange(m, errs) ==
    IF errs = <<>> THEN FALSE
    ELSE IF isInterface(m, Head(errs)) THEN TRUE
    ELSE isInterfaceRange(m, Tail(errs))

IsCanceled(e) == errorsIs(e, Canceled) \/ isInterface("cancelled", e)

IsUnknown(e) == errorsIs(e, ErrUnknown) \/ isInterface("unknown", e)

IsInvalidArgument(e) == errorsIs(e, ErrInvalidArgument) \/ isInterface("invalidParameter", e)

IsDeadlineExceeded(e) == errorsIs(e, DeadlineExceeded) \/ isInterface("deadlineExceeded", e)

IsNotFound(e) == errorsIs(e, ErrNotFound) \/ isInterface("notFound", e)

IsAlreadyExists(e) == errorsIs(e, ErrAlreadyExists)

IsPermissionDenied(e) == errorsIs(e, ErrPermissionDenied) \/ isInterface("forbidden", e)

IsResourceExhausted(e) == errorsIs(e, ErrResourceExhausted)

IsFailedPrecondition(e) == errorsIs(e, ErrFailedPrecondition)

IsConflict(e) == errorsIs(e, ErrConflict) \/ isInterface("conflict", e)

IsNotModified(e) == errorsIs(e, ErrNotModified) \/ isInterface("notModified", e)

IsAborted(e) == errorsIs(e, ErrAborted)

IsOutOfRange(e) == errorsIs(e, ErrOutOfRange)

IsNotImplemented(e) == errorsIs(e, ErrNotImplemented) \/ isInterface("notImplemented", e)

IsInternal(e) == errorsIs(e, ErrInternal) \/ isInterface("system", e)

IsUnavailable(e) == errorsIs(e, ErrUnavailable) \/ isInterface("unavailable", e)

IsDataLoss(e) == errorsIs(e, ErrDataLoss) \/ isInterface("dataLoss", e)

IsUnauthorized(e) == errorsIs(e, ErrUnauthenticated) \/ isInterface("unauthorized", e)

----------------------------------------------------------------------------
(* http.go *)

StatusNotModified == 304
StatusBadRequest == 400
StatusUnauthorized == 401
StatusForbidden == 403
StatusNotFound == 404
StatusConflict == 409
StatusPreconditionFailed == 412
StatusTooManyRequests == 429
StatusInternalServerError == 500
StatusNotImplemented == 501
StatusServiceUnavailable == 503

\* FromHTTP with ErrUnknown for the codes outside the table.
FromHTTPDefaultUnknown(statusCode) ==
    IF statusCode = StatusNotFound THEN ErrNotFound
    ELSE IF statusCode = StatusBadRequest THEN ErrInvalidArgument
    ELSE IF statusCode = StatusConflict THEN ErrConflict
    ELSE IF statusCode = StatusPreconditionFailed THEN ErrFailedPrecondition
    ELSE IF statusCode = StatusUnauthorized THEN ErrUnauthenticated
    ELSE IF statusCode = StatusForbidden THEN ErrPermissionDenied
    ELSE IF statusCode = StatusNotModified THEN ErrNotModified
    ELSE IF statusCode = StatusTooManyRequests THEN ErrResourceExhausted
    ELSE IF statusCode = StatusInternalServerError THEN ErrInternal
    ELSE IF statusCode = StatusNotImplemented THEN ErrNotImplemented
    ELSE IF statusCode = StatusServiceUnavailable THEN ErrUnavailable
    ELSE ErrUnknown

\* FromHTTP with the kinds of 401 and 403 exchanged.
FromHTTPSwapAuth(statusCode) ==
    IF statusCode = StatusNotFound THEN ErrNotFound
    ELSE IF statusCode = StatusBadRequest THEN ErrInvalidArgument
    ELSE IF statusCode = StatusConflict THEN ErrConflict
    ELSE IF statusCode = StatusPreconditionFailed THEN ErrFailedPrecondition
    ELSE IF statusCode = StatusUnauthorized THEN ErrPermissionDenied
    ELSE IF statusCode = StatusForbidden THEN ErrUnauthenticated
    ELSE IF statusCode = StatusNotModified THEN ErrNotModified
    ELSE IF statusCode = StatusTooManyRequests THEN ErrResourceExhausted
    ELSE IF statusCode = StatusInternalServerError THEN ErrInternal
    ELSE IF statusCode = StatusNotImplemented THEN ErrNotImplemented
    ELSE IF statusCode = StatusServiceUnavailable THEN ErrUnavailable
    ELSE errUnexpectedStatus(statusCode)

FromHTTP(statusCode) ==
    IF statusCode = StatusNotFound THEN ErrNotFound
    ELSE IF statusCode = StatusBadRequest THEN ErrInvalidArgument
    ELSE IF statusCode = StatusConflict THEN ErrConflict
    ELSE IF statusCode = StatusPreconditionFailed THEN ErrFailedPrecondition
    ELSE IF statusCode = StatusUnauthorized THEN ErrUnauthenticated
    ELSE IF statusCode = StatusForbidden THEN ErrPermissionDenied
    ELSE IF statusCode = StatusNotModified THEN ErrNotModified
    ELSE IF statusCode = StatusTooManyRequests THEN ErrResourceExhausted
    ELSE IF statusCode = StatusInternalServerError THEN ErrInternal
    ELSE IF statusCode = StatusNotImplemented THEN ErrNotImplemented
    ELSE IF statusCode = StatusServiceUnavailable THEN ErrUnavailable
    ELSE errUnexpectedStatus(statusCode)

\* errors.As(err, &unexpected) of the standard library: the first node, in
\* pre-order, whose dynamic type is errUnexpectedStatus; Nil when there is none.
RECURSIVE asUnexpectedStatus(_)
RECURSIVE asUnexpectedStatusRange(_)
asUnexpectedStatus(e) ==
    IF e = Nil THEN Nil
    ELSE IF e.t = "errUnexpectedStatus" THEN e
    ELSE IF hasUnwrap(e)
        THEN IF Unwrap(e) = Nil THEN Nil ELSE asUnexpectedStatus(Unwrap(e))
    ELSE IF hasUnwrapAll(e) THEN asUnexpectedStatusRange(e.errs)
    ELSE Nil

asUnexpectedStatusRange(errs) ==
    IF errs = <<>> THEN Nil
    ELSE LET u == asUnexpectedStatus(Head(errs))
         IN  IF u # Nil THEN u ELSE asUnexpectedStatusRange(Tail(errs))

\* ToHTTP with the test for Unavailable moved to the front.
ToHTTPUnavailableFirst(e) ==
    IF IsUnavailable(e) THEN StatusServiceUnavailable
    ELSE IF IsNotFound(e) THEN StatusNotFound
    ELSE IF IsInvalidArgument(e) THEN StatusBadRequest
    ELSE IF IsConflict(e) THEN StatusConflict
    ELSE IF IsNotModified(e) THEN StatusNotModified
    ELSE IF IsFailedPrecondition(e) THEN StatusPreconditionFailed
    ELSE IF IsUnauthorized(e) THEN StatusUnauthorized
    ELSE IF IsPermissionDenied(e) THEN StatusForbidden
    ELSE IF IsResourceExhausted(e) THEN StatusTooManyRequests
    ELSE IF IsInternal(e) THEN StatusInternalServerError
    ELSE IF IsNotImplemented(e) THEN StatusNotImplemented
    ELSE IF IsUnavailable(e) THEN StatusServiceUnavailable
    ELSE IF IsUnknown(e)
        THEN LET unexpected == asUnexpectedStatus(e)
             IN  IF unexpected # Nil /\ unexpected.status >= 200 /\ unexpected.status < 600
                 THEN unexpected.status
                 ELSE StatusInternalServerError
    ELSE StatusInternalServerError

\* ToHTTP without the recovery of the status a marker carries.
ToHTTPNoRecover(e) ==
    IF IsNotFound(e) THEN StatusNotFound
    ELSE IF IsInvalidArgument(e) THEN StatusBadRequest
    ELSE IF IsConflict(e) THEN StatusConflict
    ELSE IF IsNotModified(e) THEN StatusNotModified
    ELSE IF IsFailedPrecondition(e) THEN StatusPreconditionFailed
    ELSE IF IsUnauthorized(e) THEN StatusUnauthorized
    ELSE IF IsPermissionDenied(e) THEN StatusForbidden
    ELSE IF IsResourceExhausted(e) THEN StatusTooManyRequests
    ELSE IF IsInternal(e) THEN StatusInternalServerError
    ELSE IF IsNotImplemented(e) THEN StatusNotImplemented
    ELSE IF IsUnavailable(e) THEN StatusServiceUnavailable
    ELSE IF IsUnknown(e)
        THEN StatusInternalServerError
    ELSE StatusInternalServerError

ToHTTP(e) ==
    IF IsNotFound(e) THEN StatusNotFound
    ELSE IF IsInvalidArgument(e) THEN StatusBadRequest
    ELSE IF IsConflict(e) THEN StatusConflict
    ELSE IF IsNotModified(e) THEN StatusNotModified
    ELSE IF IsFailedPrecondition(e) THEN StatusPreconditionFailed
    ELSE IF IsUnauthorized(e) THEN StatusUnauthorized
    ELSE IF IsPermissionDenied(e) THEN StatusForbidden
    ELSE IF IsResourceExhausted(e) THEN StatusTooManyRequests
    ELSE IF IsInternal(e) THEN StatusInternalServerError
    ELSE IF IsNotImplemented(e) THEN StatusNotImplemented
    ELSE IF IsUnavailable(e) THEN StatusServiceUnavailable
    ELSE IF IsUnknown(e)
        THEN LET unexpected == asUnexpectedStatus(e)
             IN  IF unexpected # Nil /\ unexpected.status >= 200 /\ unexpected.status < 600
                 THEN unexpected.status
                 ELSE StatusInternalServerError
    ELSE StatusInternalServerError

----------------------------------------------------------------------------
(* errgrpc/grpc.go *)

\* google.golang.org/grpc/codes, without OK
codes ==
    {"Canceled", "Unknown", "InvalidArgument", "DeadlineExceeded", "NotFound",
     "AlreadyExists", "PermissionDenied", "ResourceExhausted",
     "FailedPrecondition", "Aborted", "OutOfRange", "Unimplemented",
     "Internal", "Unavailable", "DataLoss", "Unauthenticated"}

\* &spb.Status{Code, Message, Details}
Status(c, message, details) == [code |-> c, message |-> message, details |-> details]

\* status.FromProto(p).Err()
statusErr(p) ==
    [t |-> "status", code |-> p.code, message |-> p.message, details |-> p.details]

\* status.Error(c, msg)
statusError(c, msg) == statusErr(Status(c, msg, <<>>))

\* st.Proto()
Proto(st) == Status(st.code, st.message, st.details)

isGRPCError(e) == e.t = "status"

\* code(err)
grpcCode(e) == IF isGRPCError(e) THEN e.code ELSE "Unknown"

errDesc(e) == IF isGRPCError(e) THEN e.message ELSE Text(e)

StatusURL == "type.googleapis.com/google.rpc.Status"

EmptyURL == "type.googleapis.com/google.protobuf.Empty"

\* anypb.New(p): the type URL of p and its bytes (here the message itself;
\* bytesOK tells that the bytes unmarshal into the type of the URL).
anypbNew(p) == [typeUrl |-> StatusURL, value |-> p, bytesOK |-> TRUE]

\* errorCode with the testers applied to err itself instead of Resolve(err).
errorCodeOfTree(e) ==
    IF IsInvalidArgument(e) THEN "InvalidArgument"
    ELSE IF IsNotFound(e) THEN "NotFound"
    ELSE IF IsAlreadyExists(e) THEN "AlreadyExists"
    ELSE IF IsFailedPrecondition(e) \/ IsConflict(e) \/ IsNotModified(e)
        THEN "FailedPrecondition"
    ELSE IF IsUnavailable(e) THEN "Unavailable"
    ELSE IF IsNotImplemented(e) THEN "Unimplemented"
    ELSE IF IsCanceled(e) THEN "Canceled"
    ELSE IF IsDeadlineExceeded(e) THEN "DeadlineExceeded"
    ELSE IF IsUnauthorized(e) THEN "Unauthenticated"
    ELSE IF IsPermissionDenied(e) THEN "PermissionDenied"
    ELSE IF IsInternal(e) THEN "Internal"
    ELSE IF IsDataLoss(e) THEN "DataLoss"
    ELSE IF IsAborted(e) THEN "Aborted"
    ELSE IF IsOutOfRange(e) THEN "OutOfRange"
    ELSE IF IsResourceExhausted(e) THEN "ResourceExhausted"
    ELSE "Unknown"

\* switch err := errdefs.Resolve(err); { ... }
errorCode(e) ==
    LET r == Resolve(e)
    IN  IF IsInvalidArgument(r) THEN "InvalidArgument"
        ELSE IF IsNotFound(r) THEN "NotFound"
        ELSE IF IsAlreadyExists(r) THEN "AlreadyExists"
        ELSE IF IsFailedPrecondition(r) THEN "FailedPrecondition"
        ELSE IF IsConflict(r) THEN "FailedPrecondition"
        ELSE IF IsNotModified(r) THEN "FailedPrecondition"
        ELSE IF IsUnavailable(r) THEN "Unavailable"
        ELSE IF IsNotImplemented(r) THEN "Unimplemented"
        ELSE IF IsCanceled(r) THEN "Canceled"
        ELSE IF IsDeadlineExceeded(r) THEN "DeadlineExceeded"
        ELSE IF IsUnauthorized(r) THEN "Unauthenticated"
        ELSE IF IsPermissionDenied(r) THEN "PermissionDenied"
        ELSE IF IsInternal(r) THEN "Internal"
        ELSE IF IsDataLoss(r) THEN "DataLoss"
        ELSE IF IsAborted(r) THEN "Aborted"
        ELSE IF IsOutOfRange(r) THEN "OutOfRange"
        ELSE IF IsResourceExhausted(r) THEN "ResourceExhausted"
        ELSE "Unknown"

\* The errs of withDetails: the type switch on the two forms of Unwrap.
wrappedErrors(e) ==
    IF hasUnwrap(e)
        THEN IF Unwrap(e) # Nil THEN <<Unwrap(e)>> ELSE <<>>
    ELSE IF hasUnwrapAll(e) THEN e.errs
    ELSE <<>>

\* withDetails(p, err): the first detail is anypb.New(p), then one detail per
\* wrapped error, each a Status with code Unknown, the wrapped error's text
\* and its own details.
RECURSIVE withDetails(_, _)
RECURSIVE withDetailsRange(_)
RECURSIVE withDetailsRangeFlat(_)
\* withDetailsRange writing the wrapped errors without their own details.
withDetailsRangeFlat(errs) ==
    IF errs = <<>> THEN <<>>
    ELSE <<anypbNew(Status("Unknown", Text(Head(errs)), <<>>))>>
         \o withDetailsRangeFlat(Tail(errs))

withDetails(p, e) ==
    [p EXCEPT !.details = p.details \o <<anypbNew(p)>> \o withDetailsRange(wrappedErrors(e))]

withDetailsRange(errs) ==
    IF errs = <<>> THEN <<>>
    ELSE <<anypbNew(withDetails(Status("Unknown", Text(Head(errs)), <<>>), Head(errs)))>>
         \o withDetailsRange(Tail(errs))

\* ToGRPC without the test for an error that is a status already.
ToGRPCNoPassthrough(e) ==
    IF e = Nil THEN e
    ELSE statusErr(withDetails(Status(errorCode(e), Text(e), <<>>), e))

ToGRPC(e) ==
    IF e = Nil \/ isGRPCError(e) THEN e
    ELSE statusErr(withDetails(Status(errorCode(e), Text(e), <<>>), e))

\* ToGRPC of package errdefs (grpc.go): the code of the first tester that is
\* true on err, no details.
errdefsToGRPC(e) ==
    IF e = Nil THEN Nil
    ELSE IF isGRPCError(e) THEN e
    ELSE IF IsInvalidArgument(e) THEN statusError("InvalidArgument", Text(e))
    ELSE IF IsNotFound(e) THEN statusError("NotFound", Text(e))
    ELSE IF IsAlreadyExists(e) THEN statusError("AlreadyExists", Text(e))
    ELSE IF IsFailedPrecondition(e) \/ IsConflict(e) \/ IsNotModified(e)
        THEN statusError("FailedPrecondition", Text(e))
    ELSE IF IsUnavailable(e) THEN statusError("Unavailable", Text(e))
    ELSE IF IsNotImplemented(e) THEN statusError("Unimplemented", Text(e))
    ELSE IF IsCanceled(e) THEN statusError("Canceled", Text(e))
    ELSE IF IsDeadlineExceeded(e) THEN statusError("DeadlineExceeded", Text(e))
    ELSE IF IsUnauthorized(e) THEN statusError("Unauthenticated", Text(e))
    ELSE IF IsPermissionDenied(e) THEN statusError("PermissionDenied", Text(e))
    ELSE IF IsInternal(e) THEN statusError("Internal", Text(e))
    ELSE IF IsDataLoss(e) THEN statusError("DataLoss", Text(e))
    ELSE IF IsAborted(e) THEN statusError("Aborted", Text(e))
    ELSE IF IsOutOfRange(e) THEN statusError("OutOfRange", Text(e))
    ELSE IF IsResourceExhausted(e) THEN statusError("ResourceExhausted", Text(e))
    ELSE IF IsUnknown(e) THEN statusError("Unknown", Text(e))
    ELSE e

\* strings.HasSuffix, strings.TrimSuffix on texts
HasSuffix(s, suffix) ==
    /\ Len(s) >= Len(suffix)
    /\ SubSeq(s, Len(s) - Len(suffix) + 1, Len(s)) = suffix

\* TrimSuffix that removes nothing.
TrimSuffixNone(s, suffix) == s

TrimSuffix(s, suffix) ==
    IF HasSuffix(s, suffix) THEN SubSeq(s, 1, Len(s) - Len(suffix)) ELSE s

\* strings.LastIndex(s, substr), substr one token: the length of the text
\* before the last occurrence (counted in tokens), -1 when there is none.
LastIndex(s, substr) ==
    IF \E i \in 1..Len(s) : s[i] = substr
    THEN (CHOOSE i \in 1..Len(s) :
            s[i] = substr /\ \A j \in (i + 1)..Len(s) : s[j] # substr) - 1
    ELSE -1

unexpectedStatusPrefix == "unexpected status "

\* The integers a text of the model can spell.
Spellable == (-1)..1000

\* strconv.Atoi(s): ok is FALSE for a text that is not one integer.
Atoi(s) ==
    IF Len(s) = 1 /\ \E n \in Spellable : ToString(n) = s[1]
    THEN [ok |-> TRUE, n |-> CHOOSE n \in Spellable : ToString(n) = s[1]]
    ELSE [ok |-> FALSE, n |-> 0]

\* rebaseMessage that never removes the text of cls from the end of desc.
rebaseMessageNoTrim(cls, desc) ==
    IF desc = Text(cls) THEN <<>> ELSE desc

rebaseMessage(cls, desc) ==
    LET clss == Text(cls)
    IN  IF desc = clss THEN <<>> ELSE TrimSuffix(desc, <<": ">> \o clss)

\* The default case of ToNative's switch: the status spelled after the last
\* "unexpected status " when it is not at the start of desc, else ErrUnknown.
unexpectedStatusClass(desc) ==
    LET idx == LastIndex(desc, unexpectedStatusPrefix)
    IN  IF idx > 0
        THEN LET a == Atoi(SubSeq(desc, idx + 2, Len(desc)))
             IN  IF a.ok /\ a.n >= 200 /\ a.n < 600
                 THEN errUnexpectedStatus(a.n)
                 ELSE ErrUnknown
        ELSE ErrUnknown

\* class comparing the whole message only, without the suffix tests.
classExact(c, desc) ==
    IF c = "InvalidArgument" THEN ErrInvalidArgument
    ELSE IF c = "AlreadyExists" THEN ErrAlreadyExists
    ELSE IF c = "NotFound" THEN ErrNotFound
    ELSE IF c = "Unavailable" THEN ErrUnavailable
    ELSE IF c = "FailedPrecondition"
        THEN IF desc = Text(ErrConflict)
                THEN ErrConflict
             ELSE IF desc = Text(ErrNotModified)
                THEN ErrNotModified
             ELSE ErrFailedPrecondition
    ELSE IF c = "Unimplemented" THEN ErrNotImplemented
    ELSE IF c = "Canceled" THEN Canceled
    ELSE IF c = "DeadlineExceeded" THEN DeadlineExceeded
    ELSE IF c = "Aborted" THEN ErrAborted
    ELSE IF c = "Unauthenticated" THEN ErrUnauthenticated
    ELSE IF c = "PermissionDenied" THEN ErrPermissionDenied
    ELSE IF c = "Internal" THEN ErrInternal
    ELSE IF c = "DataLoss" THEN ErrDataLoss
    ELSE IF c = "OutOfRange" THEN ErrOutOfRange
    ELSE IF c = "ResourceExhausted" THEN ErrResourceExhausted
    ELSE unexpectedStatusClass(desc)

\* The class ToNative's switch chooses from the code and the message.
class(c, desc) ==
    IF c = "InvalidArgument" THEN ErrInvalidArgument
    ELSE IF c = "AlreadyExists" THEN ErrAlreadyExists
    ELSE IF c = "NotFound" THEN ErrNotFound
    ELSE IF c = "Unavailable" THEN ErrUnavailable
    ELSE IF c = "FailedPrecondition"
        THEN IF desc = Text(ErrConflict) \/ HasSuffix(desc, <<": ">> \o Text(ErrConflict))
                THEN ErrConflict
             ELSE IF desc = Text(ErrNotModified)
                     \/ HasSuffix(desc, <<": ">> \o Text(ErrNotModified))
                THEN ErrNotModified
             ELSE ErrFailedPrecondition
    ELSE IF c = "Unimplemented" THEN ErrNotImplemented
    ELSE IF c = "Canceled" THEN Canceled
    ELSE IF c = "DeadlineExceeded" THEN DeadlineExceeded
    ELSE IF c = "Aborted" THEN ErrAborted
    ELSE IF c = "Unauthenticated" THEN ErrUnauthenticated
    ELSE IF c = "PermissionDenied" THEN ErrPermissionDenied
    ELSE IF c = "Internal" THEN ErrInternal
    ELSE IF c = "DataLoss" THEN ErrDataLoss
    ELSE IF c = "OutOfRange" THEN ErrOutOfRange
    ELSE IF c = "ResourceExhausted" THEN ErrResourceExhausted
    ELSE unexpectedStatusClass(desc)

\* ToNative without the test for an empty rebased message.
ToNativeAlwaysWrap(e) ==
    IF e = Nil THEN Nil
    ELSE LET desc == errDesc(e)
             cls == class(grpcCode(e), desc)
         IN  wrapError(rebaseMessage(cls, desc), cls)

ToNative(e) ==
    IF e = Nil THEN Nil
    ELSE LET desc == errDesc(e)
             cls == class(grpcCode(e), desc)
             msg == rebaseMessage(cls, desc)
         IN  IF msg # <<>> THEN wrapError(msg, cls) ELSE cls

\* typeurl.UnmarshalAny(any): the types typeurl knows are the protobuf
\* messages Status and Empty and the types callers registered.
RegisteredURLs == {"TestError", "TestWrapper"}

UnmarshalAny(any) ==
    IF any.typeUrl \in {StatusURL, EmptyURL} \cup RegisteredURLs /\ any.bytesOK
    THEN [ok |-> TRUE, v |-> any.value]
    ELSE [ok |-> FALSE, v |-> Nil]

\* errgrpc.wrapError{error: parent, err: e}
grpcWrapError(parent, e) == [t |-> "grpcWrapError", error |-> parent, cause |-> e]

\* errgrpc.wrapErrors{error: parent}: errs keeps its zero value
grpcWrapErrors(parent) == [t |-> "grpcWrapErrors", error |-> parent, errs |-> <<>>]

\* errorWrapper.WrapError of a caller's type that keeps the wrapped error as
\* its cause.
WrapError(parent, e) == [parent EXCEPT !.cause = e]

\* wrap(parent, errs) of errgrpc
RECURSIVE grpcWrap(_, _)
grpcWrap(parent, errs) ==
    IF errs = <<>> THEN parent
    ELSE IF implements(parent, "errorWrapper")
        THEN grpcWrap(WrapError(parent, Head(errs)), Tail(errs))
    ELSE IF Len(errs) = 1 THEN grpcWrapError(parent, errs[1])
    ELSE grpcWrapErrors(parent)

RECURSIVE fromGRPCProto(_)
RECURSIVE fromGRPCProtoRange(_)

\* The loop over p.Details[1:] leaving at the first detail that does not
\* unmarshal as a Status.
RECURSIVE fromGRPCProtoRangeBreak(_)
fromGRPCProtoRangeBreak(details) ==
    IF details = <<>> THEN <<>>
    ELSE LET detail == Head(details)
         IN  IF UnmarshalAny(detail).ok /\ detail.typeUrl = StatusURL
             THEN <<fromGRPCProto(UnmarshalAny(detail).v)>>
                  \o fromGRPCProtoRangeBreak(Tail(details))
             ELSE <<>>

fromGRPCProto(p) ==
    LET leaf == errorString(p.message)
    IN  IF Len(p.details) = 0 THEN leaf
        ELSE LET first == p.details[1]
                 base == IF UnmarshalAny(first).ok /\ first.typeUrl \in RegisteredURLs
                         THEN UnmarshalAny(first).v
                         ELSE leaf
             IN  IF Len(p.details) > 1
                 THEN grpcWrap(base, fromGRPCProtoRange(Tail(p.details)))
                 ELSE base

\* The loop over p.Details[1:]: the details that unmarshal as a Status are
\* decoded, the others are passed over.
fromGRPCProtoRange(details) ==
    IF details = <<>> THEN <<>>
    ELSE LET detail == Head(details)
         IN  (IF UnmarshalAny(detail).ok /\ detail.typeUrl = StatusURL
              THEN <<fromGRPCProto(UnmarshalAny(detail).v)>>
              ELSE <<>>)
             \o fromGRPCProtoRange(Tail(details))

FromGRPC(e) ==
    IF e = Nil THEN Nil
    ELSE IF ~isGRPCError(e) THEN e
    ELSE fromGRPCProto(Proto(e))

----------------------------------------------------------------------------
(* join.go, stack.go: Join, WithStack, WithHelper *)

\* The non-nil errors of errs, in order.
NonNil(errs) == SelectSeq(errs, LAMBDA e : e # Nil)

\* errdefs.Join(errs...) of join.go
errdefsJoin(errs) ==
    LET joined == NonNil(errs)
        n == Len(joined)
    IN  IF n = 0 THEN Nil
        ELSE IF n = 1
            THEN IF joined[n].t \in {"errorValue", "errdefsJoinError"}
                 THEN joined[n]
                 ELSE errorValue(joined[n])
        ELSE errdefsJoinError(joined)

\* hasStack looking at err itself only.
hasStackRootOnly(e) == e.t = "stack"

\* hasStack(err): errors.As(err, &se), se a *stack.Error
RECURSIVE hasStack(_)
RECURSIVE hasStackRange(_)
hasStack(e) ==
    IF e = Nil THEN FALSE
    ELSE IF e.t = "stack" THEN TRUE
    ELSE IF hasUnwrap(e) THEN hasStack(Unwrap(e))
    ELSE IF hasUnwrapAll(e) THEN hasStackRange(e.errs)
    ELSE FALSE

hasStackRange(errs) ==
    IF errs = <<>> THEN FALSE
    ELSE IF hasStack(Head(errs)) THEN TRUE
    ELSE hasStackRange(Tail(errs))

\* stack.Callers(skip) of stack/stack.go, called on the goroutine stack g
\* (the caller of Callers first).
Callers(skip, g) == callers(skip + 2, <<pcRuntimeCallers, pcCallers, pcPublicCallers>> \o g)

\* stack.ErrStack() of stack/stack.go, called from the stack user
ErrStack(user) == Callers(2, <<pcErrStack>> \o user)

\* stack.ErrStack() of pkg/stack/stack.go
pkgErrStack(user) == callers(3, <<pcRuntimeCallers, pcCallers, pcErrStack>> \o user)

\* stack.Join(errs...) of stack/stack.go, called from the stack user
stackJoin(errs, user) ==
    LET e == errdefsJoin(errs)
    IN  IF ~hasStack(e)
        THEN errdefsJoin(<<e, Callers(2, <<pcJoin>> \o user)>>)
        ELSE e

\* hasLocalStackTrace(err) of pkg/stack/stack.go
RECURSIVE hasLocalStackTrace(_)
RECURSIVE hasLocalStackTraceRange(_)
hasLocalStackTrace(e) ==
    IF e = Nil THEN FALSE
    ELSE IF e.t = "stack" THEN TRUE
    ELSE IF hasUnwrap(e) THEN hasLocalStackTrace(Unwrap(e))
    ELSE IF hasUnwrapAll(e) THEN hasLocalStackTraceRange(e.errs)
    ELSE FALSE

hasLocalStackTraceRange(errs) ==
    IF errs = <<>> THEN FALSE
    ELSE IF hasLocalStackTrace(Head(errs)) THEN TRUE
    ELSE hasLocalStackTraceRange(Tail(errs))

\* joinErrors(helperVal, errs), called from g (Join or WithStack first):
\* helperVal is the helper slice of the context, NilSlice when it has none.
joinErrors(helperVal, errs, g) ==
    LET filtered == SelectSeq(errs, LAMBDA e : e # Nil /\ ~isCollapsible(e))
        given == SelectSeq(errs, LAMBDA e : e # Nil /\ isCollapsible(e))
        has == \E i \in 1..Len(errs) : errs[i] # Nil /\ hasLocalStackTrace(errs[i])
        s == [callers(4, <<pcRuntimeCallers, pcCallers, pcJoinErrors>> \o g)
                EXCEPT !.helpers = helperVal]
        collapsible == IF has THEN given ELSE Append(given, s)
        e == IF Len(filtered) > 1 THEN joinError("\n", filtered) ELSE filtered[1]
    IN  IF Len(filtered) = 0 THEN Nil
        ELSE IF Len(collapsible) = 0 THEN e
        ELSE CollapsedError(e, collapsible)

\* stack.Join(errs...) of pkg/stack/stack.go
pkgJoin(errs, user) == joinErrors(NilSlice, errs, <<pcJoin>> \o user)

\* stack.WithStack(ctx, errs...): helpers is ctx.Value(helperKey{})
WithStack(helpers, errs, user) == joinErrors(helpers, errs, <<pcWithStack>> \o user)

----------------------------------------------------------------------------
(* The state machine: a caller builds an error value and applies the
   package's operations to it. *)

MaxNodes == 4    \* nodes of the largest error tree built
MaxWidth == 2    \* members of the widest join built

DeclaredValues == 0..15

\* Error is an int8: a caller can convert any int8 to it. One undeclared
\* value stands for the values outside the const block.
ErrorValues == DeclaredValues \cup {16}

Markers ==
    {"unknown", "invalidParameter", "notFound", "forbidden", "conflict",
     "notModified", "notImplemented", "system", "unavailable", "dataLoss",
     "unauthorized", "deadlineExceeded", "cancelled"}

\* Error types of callers that declare two markers at once.
TwoMarkers == {{"unknown", "notFound"}, {"notFound", "conflict"}, {"unavailable", "cancelled"}}

Untyped == errorString(<<"untyped">>)

\* Error values without causes, as the tests build them.
Leaves ==
    {Error(v) : v \in ErrorValues}
    \cup {Canceled, DeadlineExceeded, Untyped}
    \cup {typed({m}, <<"typed">>, Nil) : m \in Markers}
    \cup {typed(ms, <<"typed">>, Nil) : ms \in TwoMarkers}
    \cup {typed({}, <<"typed">>, Nil), joinError("\n", <<>>)}
    \cup {errUnexpectedStatus(204), errUnexpectedStatus(600)}

\* The values joined to the error under construction: every pair of leaves
\* is built from Siblings, larger joins take their other members from
\* CoreSiblings.
Siblings ==
    {Error(v) : v \in ErrorValues}
    \cup {Canceled, DeadlineExceeded, Untyped, typed({"unavailable"}, <<"typed">>, Nil)}

CoreSiblings == {ErrNotFound, ErrInternal, Canceled, Untyped}

\* The marker sets of the wrapping error types of callers.
WrapperMarks == {{"notFound"}}

Messages == {<<"something else">>}

MaxStatus == 610

\* The status codes FromHTTP is given.
StatusCodes == (-1)..MaxStatus

Testers ==
    {"Canceled", "Unknown", "InvalidArgument", "DeadlineExceeded", "NotFound",
     "AlreadyExists", "PermissionDenied", "ResourceExhausted",
     "FailedPrecondition", "Conflict", "NotModified", "Aborted", "OutOfRange",
     "NotImplemented", "Internal", "Unavailable", "DataLoss", "Unauthorized"}

\* The tester Is<K> applied to e.
Is(K, e) ==
    CASE K = "Canceled" -> IsCanceled(e)
      [] K = "Unknown" -> IsUnknown(e)
      [] K = "InvalidArgument" -> IsInvalidArgument(e)
      [] K = "DeadlineExceeded" -> IsDeadlineExceeded(e)
      [] K = "NotFound" -> IsNotFound(e)
      [] K = "AlreadyExists" -> IsAlreadyExists(e)
      [] K = "PermissionDenied" -> IsPermissionDenied(e)
      [] K = "ResourceExhausted" -> IsResourceExhausted(e)
      [] K = "FailedPrecondition" -> IsFailedPrecondition(e)
      [] K = "Conflict" -> IsConflict(e)
      [] K = "NotModified" -> IsNotModified(e)
      [] K = "Aborted" -> IsAborted(e)
      [] K = "OutOfRange" -> IsOutOfRange(e)
      [] K = "NotImplemented" -> IsNotImplemented(e)
      [] K = "Internal" -> IsInternal(e)
      [] K = "Unavailable" -> IsUnavailable(e)
      [] K = "DataLoss" -> IsDataLoss(e)
      [] K = "Unauthorized" -> IsUnauthorized(e)

RECURSIVE nodes(_)
RECURSIVE nodesRange(_)
nodes(e) ==
    IF e = Nil THEN 0
    ELSE IF hasUnwrap(e) THEN 1 + nodes(Unwrap(e))
    ELSE IF hasUnwrapAll(e) THEN 1 + nodesRange(e.errs)
    ELSE 1

nodesRange(errs) ==
    IF errs = <<>> THEN 0 ELSE nodes(Head(errs)) + nodesRange(Tail(errs))

\* The caller is still building err: no operation has been applied to it.
Building == op \in {"init", "new", "WithMessage", "Errorf", "wrap", "Join", "WrapTyped"}

\* A new state holding the value e, no operation applied yet.
Built(e, by) ==
    /\ Building
    /\ nodes(e) <= MaxNodes
    /\ err' = e
    /\ op' = by
    /\ arg' = <<>>
    /\ code' = 0
    /\ res' = Nil
    /\ is' = {}
    /\ gerr' = Nil
    /\ UNCHANGED svars

Init ==
    /\ err = Nil
    /\ op = "init"
    /\ arg = <<>>
    /\ code = 0
    /\ res = Nil
    /\ is = {}
    /\ gerr = Nil
    /\ heap = <<>>
    /\ ctxs = <<>>
    /\ trace = NoTrace
    /\ osArgs = <<"containerd">>
    /\ DecodeIdle

\* errors.New("untyped"), context.Canceled, testUnavailable{}, ErrNotFound, nil ...
NewError ==
    /\ err = Nil
    /\ \E e \in Leaves \cup {Nil} : Built(e, "new")

\* err.WithMessage(msg), err a value of type Error
DoWithMessage ==
    /\ UNCHANGED svars
    /\ Building
    /\ err.t = "Error"
    /\ \E msg \in Messages :
        /\ err' = WithMessage(err, msg)
        /\ arg' = <<err, msg>>
    /\ op' = "WithMessage"
    /\ code' = 0
    /\ res' = Nil
    /\ is' = {}
    /\ gerr' = Nil

\* fmt.Errorf("wrapped error: %w", err)
Errorf ==
    /\ err # Nil
    /\ Built(wrapError(<<"wrapped error">>, err), "Errorf")

\* wrap(err) of the resolver's test
wrap(e) ==
    joinError(" and also ", <<wrapError(<<"wrapped error">>, e), ErrUnknown>>)

TestWrap ==
    /\ err # Nil
    /\ Built(wrap(err), "wrap")

\* errors.Join(errs...), err the i-th of n arguments, the others siblings
InsertAt(sibs, i, e) == SubSeq(sibs, 1, i - 1) \o <<e>> \o SubSeq(sibs, i, Len(sibs))

SiblingsFor(e, n) == IF n = 2 /\ nodes(e) = 1 THEN Siblings ELSE CoreSiblings

Join ==
    /\ err # Nil
    /\ \E n \in 1..MaxWidth :
        /\ nodes(err) + n <= MaxNodes
        /\ \E i \in 1..n, sibs \in [1..(n - 1) -> SiblingsFor(err, n)] :
            Built(joinError("\n", InsertAt(sibs, i, err)), "Join")

\* an error type of a caller wrapping err: Unwrap() returns err
WrapTyped ==
    /\ err # Nil
    /\ \E ms \in WrapperMarks : Built(typed(ms, <<"typed">>, err), "WrapTyped")

DoResolve ==
    /\ UNCHANGED svars
    /\ Building
    /\ op' = "Resolve"
    /\ res' = Resolve(err)
    /\ code' = 0
    /\ is' = {}
    /\ gerr' = Nil
    /\ UNCHANGED <<err, arg>>

DoIs ==
    /\ UNCHANGED svars
    /\ Building
    /\ op' = "Is"
    /\ is' = {K \in Testers : Is(K, err)}
    /\ gerr' = Nil
    /\ code' = 0
    /\ res' = Nil
    /\ UNCHANGED <<err, arg>>

DoToHTTP ==
    /\ UNCHANGED svars
    /\ Building
    /\ op' = "ToHTTP"
    /\ code' = ToHTTP(err)
    /\ res' = Nil
    /\ is' = {}
    /\ gerr' = Nil
    /\ UNCHANGED <<err, arg>>

DoFromHTTP ==
    /\ UNCHANGED svars
    /\ op = "init"
    /\ \E statusCode \in StatusCodes :
           /\ op' = "FromHTTP"
           /\ code' = statusCode
           /\ res' = FromHTTP(statusCode)
           /\ err' = Nil
           /\ is' = {}
           /\ gerr' = Nil
           /\ UNCHANGED arg

\* The body of TestHTTPRoundTrip: ToNative(ToHTTP(input))
HTTPRoundTrip ==
    /\ UNCHANGED svars
    /\ Building
    /\ err # Nil
    /\ op' = "HTTPRoundTrip"
    /\ code' = ToHTTP(err)
    /\ res' = FromHTTP(ToHTTP(err))
    /\ is' = {}
    /\ gerr' = Nil
    /\ UNCHANGED <<err, arg>>

\* ToHTTP(FromHTTP(statusCode))
HTTPCodeRoundTrip ==
    /\ UNCHANGED svars
    /\ op = "init"
    /\ \E statusCode \in StatusCodes :
           /\ op' = "ToHTTP(FromHTTP)"
           /\ arg' = <<statusCode>>
           /\ err' = FromHTTP(statusCode)
           /\ code' = ToHTTP(FromHTTP(statusCode))
           /\ res' = Nil
           /\ is' = {}
           /\ gerr' = Nil

\* The messages of the statuses received from a server.
Descs ==
    {<<>>, <<"conflict">>, <<"not modified">>, <<"something else">>,
     <<"something else", ": ", "conflict">>,
     <<": ", "conflict">>,
     <<"something else", ": ", "not modified">>,
     <<"something else", ": ", "failed precondition">>,
     <<"something else", ": ", "unknown">>,
     <<"conflict", ": ", "not modified">>,
     <<"not modified", ": ", "conflict">>,
     <<"unexpected status ", "418">>,
     <<"something else", ": ", "unexpected status ", "418">>,
     <<"something else", ": ", "unexpected status ", "600">>}

\* status.Error(c, msg) as a server returns it
NewStatusError ==
    /\ UNCHANGED svars
    /\ op = "init"
    /\ \E c \in codes, msg \in Descs :
           /\ op' = "status"
           /\ gerr' = statusError(c, msg)
           /\ UNCHANGED <<err, arg, code, res, is>>

MaxDetails == 3

\* The first detail of a received status: what withDetails writes for the
\* status, an Empty, a type typeurl does not know, bytes that do not
\* unmarshal, and two error types registered by the caller, the second an
\* errorWrapper.
FirstDetails(c, msg) ==
    {anypbNew(Status(c, msg, <<>>)),
     [typeUrl |-> EmptyURL, value |-> Nil, bytesOK |-> TRUE],
     [typeUrl |-> "unregistered", value |-> Nil, bytesOK |-> TRUE],
     [typeUrl |-> StatusURL, value |-> Nil, bytesOK |-> FALSE],
     [typeUrl |-> "TestError", value |-> typed({"notFound"}, <<"test error">>, Nil),
      bytesOK |-> TRUE],
     [typeUrl |-> "TestWrapper", value |-> typed({"errorWrapper"}, <<"test wrapper">>, Nil),
      bytesOK |-> TRUE]}

\* The further details of a received status: nested statuses as withDetails
\* writes them for a leaf and for a wrapper of a leaf, a nested status with
\* no details, and details that are not a Status.
NestedDetails ==
    {anypbNew(withDetails(Status("Unknown", <<"first">>, <<>>), errorString(<<"first">>))),
     anypbNew(withDetails(Status("Unknown", <<"second", ": ", "not found">>, <<>>),
                          wrapError(<<"second">>, ErrNotFound))),
     anypbNew(Status("Unknown", <<"bare">>, <<>>)),
     [typeUrl |-> EmptyURL, value |-> Nil, bytesOK |-> TRUE],
     [typeUrl |-> "unregistered", value |-> Nil, bytesOK |-> TRUE],
     [typeUrl |-> StatusURL, value |-> Nil, bytesOK |-> FALSE]}

\* A status with details as a server returns it
NewStatusDetails ==
    /\ UNCHANGED svars
    /\ op = "init"
    /\ \E c \in {"Unknown", "NotFound"}, msg \in {<<>>, <<"something else">>} :
           \E n \in 1..MaxDetails :
               \E first \in FirstDetails(c, msg), rest \in [1..(n - 1) -> NestedDetails] :
                   /\ op' = "status"
                   /\ gerr' = statusErr(Status(c, msg, <<first>> \o rest))
                   /\ UNCHANGED <<err, arg, code, res, is>>

\* gerr := ToGRPC(err) of package errgrpc
DoToGRPC ==
    /\ UNCHANGED svars
    /\ Building
    /\ op' = "ToGRPC"
    /\ gerr' = ToGRPC(err)
    /\ UNCHANGED <<err, arg, code, res, is>>

\* gerr := errdefs.ToGRPC(err)
DoErrdefsToGRPC ==
    /\ UNCHANGED svars
    /\ Building
    /\ op' = "errdefs.ToGRPC"
    /\ gerr' = errdefsToGRPC(err)
    /\ UNCHANGED <<err, arg, code, res, is>>

\* ToNative(gerr)
DoToNative ==
    /\ UNCHANGED svars
    /\ op \in {"ToGRPC", "errdefs.ToGRPC", "status"}
    /\ op' = "ToNative"
    /\ res' = ToNative(gerr)
    /\ UNCHANGED <<err, arg, code, is, gerr>>

\* FromGRPC(gerr)
DoFromGRPC ==
    /\ UNCHANGED svars
    /\ op \in {"ToGRPC", "errdefs.ToGRPC", "status"}
    /\ op' = "FromGRPC"
    /\ res' = FromGRPC(gerr)
    /\ UNCHANGED <<err, arg, code, is, gerr>>

\* ToGRPC(gerr) of package errgrpc, gerr what ToGRPC returned or a status
\* received
DoToGRPCOfStatus ==
    /\ UNCHANGED svars
    /\ op \in {"ToGRPC", "status"}
    /\ op' = "ToGRPC(gerr)"
    /\ res' = ToGRPC(gerr)
    /\ UNCHANGED <<err, arg, code, is, gerr>>

\* errdefs.ToGRPC(gerr), gerr what errdefs.ToGRPC returned or a status
\* received
DoErrdefsToGRPCOfStatus ==
    /\ UNCHANGED svars
    /\ op \in {"errdefs.ToGRPC", "status"}
    /\ op' = "errdefs.ToGRPC(gerr)"
    /\ res' = errdefsToGRPC(gerr)
    /\ UNCHANGED <<err, arg, code, is, gerr>>

\* ToNative(ToGRPC(r1)) for r1 = ToNative(ToGRPC(err)): err becomes r1
GRPCRoundTripTwice ==
    /\ UNCHANGED svars
    /\ Building
    /\ err # Nil
    /\ op' = "GRPCRoundTripTwice"
    /\ arg' = <<err>>
    /\ err' = ToNative(ToGRPC(err))
    /\ gerr' = ToGRPC(ToNative(ToGRPC(err)))
    /\ res' = ToNative(ToGRPC(ToNative(ToGRPC(err))))
    /\ code' = 0
    /\ is' = {}

\* The same with ToGRPC and FromGRPC of package errdefs
ErrdefsGRPCRoundTripTwice ==
    /\ UNCHANGED svars
    /\ Building
    /\ err # Nil
    /\ op' = "errdefs.GRPCRoundTripTwice"
    /\ arg' = <<err>>
    /\ err' = ToNative(errdefsToGRPC(err))
    /\ gerr' = errdefsToGRPC(ToNative(errdefsToGRPC(err)))
    /\ res' = ToNative(errdefsToGRPC(ToNative(errdefsToGRPC(err))))
    /\ code' = 0
    /\ is' = {}

Next ==
    \/ NewError
    \/ DoWithMessage
    \/ Errorf
    \/ TestWrap
    \/ Join
    \/ WrapTyped
    \/ DoResolve
    \/ DoIs
    \/ DoToHTTP
    \/ DoFromHTTP
    \/ HTTPRoundTrip
    \/ HTTPCodeRoundTrip
    \/ NewStatusError
    \/ NewStatusDetails
    \/ DoToGRPC
    \/ DoErrdefsToGRPC
    \/ DoToNative
    \/ DoFromGRPC
    \/ DoToGRPCOfStatus
    \/ DoErrdefsToGRPCOfStatus
    \/ GRPCRoundTripTwice
    \/ ErrdefsGRPCRoundTripTwice

Spec == Init /\ [][Next]_vars

----------------------------------------------------------------------------
(* The state machine of the stack package: a caller derives contexts with
   WithHelper, joins an error with a capture of its stack, and reads the
   trace of the capture. *)

MaxCtx == 5    \* contexts derived by WithHelper
MaxTree == 5   \* nodes of the largest error given to Join

\* The errors given to Join and WithStack.
StackBases ==
    {errorString(<<"some error">>), ErrNotFound,
     wrapError(<<"wrapped error">>, ErrNotFound),
     joinError("\n", <<Untyped, ErrInternal>>)}

\* The stacks of the callers of the package: handler called from main; the
\* helpers H1..H4 nested, two of them at their second call site; H5 and H4
\* under handler.
UserStacks == {<<2, 1>>, <<16, 5, 14, 3, 2, 1>>, <<7, 6, 2, 1>>}

\* The stacks of the callers of Join.
JoinStacks == {<<2, 1>>, <<7, 6, 2, 1>>}

\* The i-th call of WithHelper is made by the function Hi.
HelperPC(i) == 2 + i

\* The state the variables of the error mappings keep in this machine.
MappingIdle ==
    /\ code = 0
    /\ res = Nil
    /\ is = {}
    /\ gerr = Nil

StackInit ==
    /\ err = Nil
    /\ op = "init"
    /\ arg = <<>>
    /\ MappingIdle
    /\ heap = <<>>
    /\ ctxs = <<>>
    /\ trace = NoTrace
    /\ osArgs = <<"containerd">>
    /\ DecodeIdle

\* The helper slice of the context c (0: context.Background()).
HelpersOf(c) == IF c = 0 THEN NilSlice ELSE ctxs[c]

\* ctx = stack.WithHelper(parent), called from the function H(Len(ctxs) + 1)
DoWithHelper ==
    /\ op \in {"new", "WithStack"}
    /\ trace = NoTrace
    /\ Len(ctxs) < MaxCtx
    /\ \E parent \in 0..Len(ctxs) :
        LET r == AppendSlice(heap, HelpersOf(parent), HelperPC(Len(ctxs) + 1))
        IN  /\ heap' = r.heap
            /\ ctxs' = Append(ctxs, r.slice)
    /\ UNCHANGED <<err, op, arg, code, res, is, gerr, trace, osArgs>>
    /\ UNCHANGED dvars

\* The error a caller holds before it calls the package.
StackNewError ==
    /\ op = "init"
    /\ ctxs = <<>>
    /\ \E e \in StackBases \cup {Nil} :
        /\ err' = e
        /\ op' = "new"
    /\ UNCHANGED <<arg, code, res, is, gerr, heap, ctxs, trace, osArgs>>
    /\ UNCHANGED dvars

\* The first argument of a call: err, or fmt.Errorf("wrapped error: %w", err)
\* for an err the package returned.
FirstArgs ==
    {e \in {err} \cup (IF err # Nil /\ op # "new"
                       THEN {wrapError(<<"wrapped error">>, err)} ELSE {}) :
        nodes(e) <= MaxTree}

\* err = stack.Join(first, more...) of stack/stack.go
DoStackJoin ==
    /\ op \in {"new", "stack.Join"}
    /\ ctxs = <<>>
    /\ trace = NoTrace
    /\ \E first \in FirstArgs, user \in JoinStacks :
        \E more \in {<<>>, <<ErrStack(user)>>, <<Nil>>, <<errorString(<<"other">>)>>} :
            /\ err' = stackJoin(<<first>> \o more, user)
            /\ arg' = <<first>> \o more
    /\ op' = "stack.Join"
    /\ UNCHANGED <<code, res, is, gerr, heap, ctxs, trace, osArgs>>
    /\ UNCHANGED dvars

\* err = stack.Join(first, more...) of pkg/stack/stack.go
DoPkgJoin ==
    /\ op \in {"new", "pkg.Join", "WithStack"}
    /\ ctxs = <<>>
    /\ trace = NoTrace
    /\ \E first \in FirstArgs, user \in JoinStacks :
        \E more \in {<<>>, <<pkgErrStack(user)>>, <<Nil>>, <<errorString(<<"other">>)>>} :
            /\ err' = pkgJoin(<<first>> \o more, user)
            /\ arg' = <<first>> \o more
    /\ op' = "pkg.Join"
    /\ UNCHANGED <<code, res, is, gerr, heap, ctxs, trace, osArgs>>
    /\ UNCHANGED dvars

\* err = stack.WithStack(ctx, err), ctx one of the contexts derived
DoWithStack ==
    /\ op \in {"new", "pkg.Join"}
    /\ trace = NoTrace
    /\ \E c \in 0..Len(ctxs), user \in UserStacks :
        /\ err' = WithStack(HelpersOf(c), <<err>>, user)
        /\ arg' = <<err, Elems(heap, HelpersOf(c)), user>>
    /\ op' = "WithStack"
    /\ UNCHANGED <<code, res, is, gerr, heap, ctxs, trace, osArgs>>
    /\ UNCHANGED dvars

\* The stack nodes of an error tree, in pre-order.
RECURSIVE stackNodes(_)
RECURSIVE stackNodesRange(_)
stackNodes(e) ==
    IF e = Nil THEN <<>>
    ELSE IF e.t = "stack" THEN <<e>>
    ELSE IF hasUnwrap(e) THEN stackNodes(Unwrap(e))
    ELSE IF hasUnwrapAll(e) THEN stackNodesRange(e.errs)
    ELSE <<>>

stackNodesRange(errs) ==
    IF errs = <<>> THEN <<>>
    ELSE stackNodes(Head(errs)) \o stackNodesRange(Tail(errs))

\* The first getDecoded of the stack node of err: a reader prints err with
\* %+v, or unwraps the node and asks for its StackTrace().
DoGetDecoded ==
    /\ op \in {"stack.Join", "pkg.Join", "WithStack"}
    /\ trace = NoTrace
    /\ stackNodes(err) # <<>>
    /\ trace' = buildTrace(heap, stackNodes(err)[1], osArgs)
    /\ UNCHANGED <<err, op, arg, code, res, is, gerr, heap, ctxs, osArgs>>
    /\ UNCHANGED dvars

StackNext ==
    \/ DoWithHelper
    \/ StackNewError
    \/ DoStackJoin
    \/ DoPkgJoin
    \/ DoWithStack
    \/ DoGetDecoded

StackSpec == StackInit /\ [][StackNext]_vars

-----------------------------------------------------------------------------
(* stack.go: getDecoded read by several goroutines, and the JSON form *)

MaxReaders == 2

MaxCalls == 2

MaxDepth == 3

Readers == 1..MaxReaders

\* What getDecoded and the JSON methods leave alone.
nvars == <<err, op, arg, code, res, is, gerr, heap, ctxs, trace, osArgs>>

\* var t Trace: the zero value
ZeroTrace == Trace("", "", <<>>, <<>>, 0)

\* A goroutine that has not called getDecoded: where it is in getDecoded,
\* the calls it has returned from, the last non-nil s.decoded it read or
\* stored, its local f, the Trace t it built, and what its last call returned.
NewReader ==
    [pc |-> "idle", calls |-> 0, seen |-> 0, f |-> <<>>, t |-> 0,
     ret |-> NoTrace, recomputed |-> FALSE]

\* The stack nodes read, with the backing array of their helpers and the
\* helper slice of the context theirs was derived from: captured without
\* helpers, and by WithStack(WithHelper(parent), err) called from H4, with
\* one and with four helpers.
DecodeNodes ==
    {[s |-> stackNode(<<2, 1>>, NilSlice), heap |-> <<>>, ctxs |-> <<>>],
     [s |-> stackNode(<<6>>, [a |-> 1, n |-> 1, c |-> 1]), heap |-> <<<<6>>>>,
      ctxs |-> <<NilSlice>>],
     [s |-> stackNode(<<7, 6, 2, 1>>, [a |-> 1, n |-> 4, c |-> 4]),
      heap |-> <<<<3, 4, 5, 6>>>>, ctxs |-> <<[a |-> 1, n |-> 3, c |-> 4]>>]}

\* An argument of the command line that is not valid UTF-8.
InvalidUTF8 == "0xff"

ArgLists == {<<"containerd">>, <<"containerd", "--root", InvalidUTF8>>}

DecodeInit ==
    /\ \E n \in DecodeNodes :
        /\ err = n.s
        /\ heap = n.heap
        /\ ctxs = n.ctxs
        /\ arg = <<Elems(n.heap, n.s.helpers)>>
    /\ osArgs \in ArgLists
    /\ op = "decode"
    /\ MappingIdle
    /\ trace = NoTrace
    /\ decoded = 0
    /\ traces = <<>>
    /\ readers = [g \in Readers |-> NewReader]
    /\ js = NoJSON

\* if s.decoded == nil
needsDecode(v) == v = 0

\* What a read of s.decoded without synchronisation can give a goroutine: the
\* pointer stored last, the one it read or stored before, and nil as long as
\* it has seen no other.
Visible(r) == {r.seen, decoded}

\* What a goroutine reads of the fields of the Trace v points to. The one
\* that built it reads what it wrote. Another one got v by a read of
\* s.decoded that no synchronisation orders after the writes of the fields:
\* of Frames and Pid it reads what was written, or the zero value.
Observed(r, v) ==
    IF v = r.t
    THEN {traces[v]}
    ELSE {Trace(traces[v].Version, traces[v].Revision, traces[v].Cmdline, fr, pid) :
            fr \in {<<>>, traces[v].Frames}, pid \in {0, traces[v].Pid}}

\* A goroutine calls getDecoded: Error(), Format with %+v, StackTrace().
Call(g) ==
    /\ readers[g].pc = "idle"
    /\ readers[g].calls < MaxCalls
    /\ js.state = "none"
    /\ readers' = [readers EXCEPT ![g].pc = "check"]
    /\ UNCHANGED <<decoded, traces, js>>
    /\ UNCHANGED nvars

\* if s.decoded == nil {
Check(g) ==
    /\ readers[g].pc = "check"
    /\ \E v \in Visible(readers[g]) :
        readers' = [readers EXCEPT
                      ![g].pc = IF needsDecode(v) THEN "frames" ELSE "return",
                      ![g].seen = IF v = 0 THEN @ ELSE v]
    /\ UNCHANGED <<decoded, traces, js>>
    /\ UNCHANGED nvars

\* The two loops: the helpers map, and f, the frames of no helper.
DecodeFrames(g) ==
    /\ readers[g].pc = "frames"
    /\ readers' = [readers EXCEPT
                     ![g].pc = "alloc",
                     ![g].f = decodeFrames(err.callers,
                                           helperFunctions(Elems(heap, err.helpers)))]
    /\ UNCHANGED <<decoded, traces, js>>
    /\ UNCHANGED nvars

\* t := Trace{: the variable t, which escapes to the heap
Alloc(g) ==
    /\ readers[g].pc = "alloc"
    /\ traces' = Append(traces, ZeroTrace)
    /\ readers' = [readers EXCEPT
                     ![g].pc = "fill",
                     ![g].t = Len(traces) + 1,
                     ![g].recomputed = @ \/ readers[g].calls > 0]
    /\ UNCHANGED <<decoded, js>>
    /\ UNCHANGED nvars

\* Version: Version, Revision: Revision, Cmdline: os.Args, Frames: f, Pid: ... }
Fill(g) ==
    /\ readers[g].pc = "fill"
    /\ traces' = [traces EXCEPT
                    ![readers[g].t] = Trace(Version, Revision, osArgs, readers[g].f, Pid)]
    /\ readers' = [readers EXCEPT ![g].pc = "store"]
    /\ UNCHANGED <<decoded, js>>
    /\ UNCHANGED nvars

\* atomic.StorePointer(unsafeDecoded, unsafe.Pointer(&t))
Store(g) ==
    /\ readers[g].pc = "store"
    /\ decoded' = readers[g].t
    /\ readers' = [readers EXCEPT ![g].pc = "return", ![g].seen = readers[g].t]
    /\ UNCHANGED <<traces, js>>
    /\ UNCHANGED nvars

\* return s.decoded
Return(g) ==
    /\ readers[g].pc = "return"
    /\ \E v \in Visible(readers[g]) :
        \E tr \in IF v = 0 THEN {NoTrace} ELSE Observed(readers[g], v) :
            readers' = [readers EXCEPT
                          ![g].pc = "idle",
                          ![g].calls = @ + 1,
                          ![g].seen = IF v = 0 THEN @ ELSE v,
                          ![g].f = <<>>,
                          ![g].ret = tr]
    /\ UNCHANGED <<decoded, traces, js>>
    /\ UNCHANGED nvars

\* WithHelper(parent) called from H5 while the node is read, parent the
\* context the node's context was derived from.
SiblingWithHelper ==
    /\ Len(ctxs) = 1
    /\ js.state = "none"
    /\ LET r == AppendSlice(heap, ctxs[1], HelperPC(5))
       IN  /\ heap' = r.heap
           /\ ctxs' = Append(ctxs, r.slice)
    /\ UNCHANGED <<err, op, arg, code, res, is, gerr, trace, osArgs>>
    /\ UNCHANGED dvars

\* encoding/json: a string is coerced to valid UTF-8, invalid bytes become
\* the replacement rune.
jsonString(str) == IF str = InvalidUTF8 THEN "U+FFFD" ELSE str

\* json.Marshal of a Frame: `json:"...,omitempty"` leaves out empty fields.
jsonFrame(f) ==
    LET keys == {k \in {"Name", "File", "Line"} :
                    CASE k = "Name" -> f.Name # ""
                      [] k = "File" -> f.File # ""
                      [] OTHER -> f.Line # 0}
    IN  [k \in keys |-> CASE k = "Name" -> jsonString(f.Name)
                          [] k = "File" -> jsonString(f.File)
                          [] OTHER -> f.Line]

\* json.Marshal of a Trace
jsonMarshal(tr) ==
    LET keys == {k \in {"version", "revision", "cmdline", "frames", "pid"} :
                    CASE k = "version" -> tr.Version # ""
                      [] k = "revision" -> tr.Revision # ""
                      [] k = "cmdline" -> tr.Cmdline # <<>>
                      [] k = "frames" -> tr.Frames # <<>>
                      [] OTHER -> tr.Pid # 0}
    IN  [k \in keys |->
            CASE k = "version" -> jsonString(tr.Version)
              [] k = "revision" -> jsonString(tr.Revision)
              [] k = "cmdline" -> [i \in 1..Len(tr.Cmdline) |-> jsonString(tr.Cmdline[i])]
              [] k = "frames" -> [i \in 1..Len(tr.Frames) |-> jsonFrame(tr.Frames[i])]
              [] OTHER -> tr.Pid]

\* json.Unmarshal into a Frame: the fields the object has, else the zero value.
jsonUnmarshalFrame(o) ==
    [Name |-> IF "Name" \in DOMAIN o THEN o["Name"] ELSE "",
     File |-> IF "File" \in DOMAIN o THEN o["File"] ELSE "",
     Line |-> IF "Line" \in DOMAIN o THEN o["Line"] ELSE 0]

\* json.Unmarshal(b, &t) with var t Trace
jsonUnmarshal(o) ==
    Trace(IF "version" \in DOMAIN o THEN o["version"] ELSE "",
          IF "revision" \in DOMAIN o THEN o["revision"] ELSE "",
          IF "cmdline" \in DOMAIN o THEN o["cmdline"] ELSE <<>>,
          IF "frames" \in DOMAIN o
          THEN [i \in 1..Len(o["frames"]) |-> jsonUnmarshalFrame(o["frames"][i])]
          ELSE <<>>,
          IF "pid" \in DOMAIN o THEN o["pid"] ELSE 0)

\* b, _ := s.MarshalJSON(), when no goroutine is inside getDecoded: it returns
\* the trace s.decoded points to.
DoMarshalJSON ==
    /\ js.state = "none"
    /\ decoded # 0
    /\ \A g \in Readers : readers[g].pc = "idle"
    /\ js' = [js EXCEPT !.state = "marshalled", !.bytes = jsonMarshal(traces[decoded])]
    /\ UNCHANGED <<decoded, traces, readers>>
    /\ UNCHANGED nvars

\* (*stack).UnmarshalJSON of pkg/stack on a new node: var t Trace;
\* json.Unmarshal(b, &t); atomic.StorePointer(unsafeDecoded, &t)
PkgUnmarshalJSON ==
    /\ js.state = "marshalled"
    /\ js' = [js EXCEPT !.state = "done", !.depth = 1, !.recv = jsonUnmarshal(js.bytes)]
    /\ UNCHANGED <<decoded, traces, readers>>
    /\ UNCHANGED nvars

\* (*Error).UnmarshalJSON of stack/stack.go on a new node: var t Error;
\* json.Unmarshal(b, &t), and &t is a json.Unmarshaler: json.Unmarshal calls
\* t.UnmarshalJSON(b), which declares its own t and calls json.Unmarshal.
StackUnmarshalJSON ==
    /\ js.state \in {"marshalled", "nested"}
    /\ js.depth < MaxDepth
    /\ js' = [js EXCEPT !.state = "nested", !.depth = @ + 1]
    /\ UNCHANGED <<decoded, traces, readers>>
    /\ UNCHANGED nvars

\* The calls nest until the goroutine's stack is at its limit: the runtime
\* ends the process, no call has returned.
StackOverflow ==
    /\ js.state = "nested"
    /\ js.depth = MaxDepth
    /\ js' = [js EXCEPT !.state = "fatal"]
    /\ UNCHANGED <<decoded, traces, readers>>
    /\ UNCHANGED nvars

\* getDecoded of the receiving node after UnmarshalJSON returned.
ReadReceived ==
    /\ js.state = "done"
    /\ js' = [js EXCEPT !.state = "read",
                        !.redecoded = needsDecode(IF js.recv = NoTrace THEN 0 ELSE 1)]
    /\ UNCHANGED <<decoded, traces, readers>>
    /\ UNCHANGED nvars

DecodeNext ==
    \/ \E g \in Readers :
        \/ Call(g)
        \/ Check(g)
        \/ DecodeFrames(g)
        \/ Alloc(g)
        \/ Fill(g)
        \/ Store(g)
        \/ Return(g)
    \/ SiblingWithHelper
    \/ DoMarshalJSON
    \/ PkgUnmarshalJSON
    \/ StackUnmarshalJSON
    \/ StackOverflow
    \/ ReadReceived

DecodeSpec == DecodeInit /\ [][DecodeNext]_vars

----------------------------------------------------------------------------
(* The notions the properties are stated with *)

\* The nodes of an error tree in depth-first pre-order: a node, then its
\* single cause, or the members of its join from left to right.
RECURSIVE PreOrder(_)
RECURSIVE PreOrderRange(_)
PreOrder(e) ==
    IF e = Nil THEN <<>>
    ELSE IF hasUnwrap(e) THEN <<e>> \o PreOrder(Unwrap(e))
    ELSE IF hasUnwrapAll(e) THEN <<e>> \o PreOrderRange(e.errs)
    ELSE <<e>>

PreOrderRange(errs) ==
    IF errs = <<>> THEN <<>> ELSE PreOrder(Head(errs)) \o PreOrderRange(Tail(errs))

NodeSet(e) == {PreOrder(e)[i] : i \in 1..Len(PreOrder(e))}

Sentinels == {Canceled, DeadlineExceeded}

CanonicalKinds == {Error(v) : v \in DeclaredValues}

\* The kind (or sentinel) whose capability the marker m declares.
KindOfMarker(m) ==
    CASE m = "unknown" -> ErrUnknown
      [] m = "invalidParameter" -> ErrInvalidArgument
      [] m = "notFound" -> ErrNotFound
      [] m = "forbidden" -> ErrPermissionDenied
      [] m = "conflict" -> ErrConflict
      [] m = "notModified" -> ErrNotModified
      [] m = "notImplemented" -> ErrNotImplemented
      [] m = "system" -> ErrInternal
      [] m = "unavailable" -> ErrUnavailable
      [] m = "dataLoss" -> ErrDataLoss
      [] m = "unauthorized" -> ErrUnauthenticated
      [] m = "deadlineExceeded" -> DeadlineExceeded
      [] m = "cancelled" -> Canceled

\* What the node n matches by itself: the sentinel or the value of type Error
\* it is (an undeclared value of the type is matched like a declared one), or
\* the kinds whose markers its type declares; {} when it matches nothing.
NodeKinds(n) ==
    IF n \in Sentinels \/ n.t = "Error" THEN {n}
    ELSE {KindOfMarker(m) : m \in {x \in Markers : implements(n, x)}}

HasMatch(e) == \E n \in NodeSet(e) : NodeKinds(n) # {}

\* The first node of e, in pre-order, that matches.
FirstMatch(e) ==
    LET p == PreOrder(e)
        i == CHOOSE k \in 1..Len(p) :
                /\ NodeKinds(p[k]) # {}
                /\ \A j \in 1..(k - 1) : NodeKinds(p[j]) = {}
    IN  p[i]

----------------------------------------------------------------------------
(* Properties *)

\* C1: for a non-nil error tree with a matching node, Resolve returns what the
\* first matching node of the depth-first pre-order walk matches (the node
\* before its causes, a single cause followed, the members of a join from
\* left to right, a sub-branch without a match skipped).
C1_ResolveFirstInPreOrder ==
    (op = "Resolve" /\ err # Nil /\ HasMatch(err))
        => res \in NodeKinds(FirstMatch(err))

\* C1 witness: the first member of a join is a join without a match, the
\* walk goes on with the second member.
C1_Witness ==
    /\ op = "Resolve"
    /\ err = joinError("\n", <<joinError("\n", <<Untyped>>), ErrNotFound>>)
    /\ res = ErrNotFound

\* C2: Resolve(nil) is nil, and Resolve of a non-nil tree without any
\* matching node is ErrUnknown.
C2_NilAndUnknown ==
    /\ (op = "Resolve" /\ err = Nil) => res = Nil
    /\ (op = "Resolve" /\ err # Nil /\ ~HasMatch(err)) => res = ErrUnknown

\* C2 witness: a join of an untyped leaf with a wrapper whose cause is nil.
C2_Witness ==
    /\ op = "Resolve"
    /\ err = joinError("\n", <<typed({}, <<"typed">>, Nil), Untyped>>)
    /\ res = ErrUnknown

\* C3: Resolve of a kind or sentinel K wrapped in context is K, of
\* join(E, K) with E without a taxonomy match is K, and of join(K1, K2) is
\* K1, for all kinds and sentinels K, K1, K2.
C3_WrapAndJoinKeepKind ==
    op = "Resolve" =>
        /\ (err.t = "wrapError" /\ err.cause \in CanonicalKinds \cup Sentinels)
            => res = err.cause
        /\ (\E K \in CanonicalKinds \cup Sentinels : err = wrap(K))
            => err = wrap(res)
        /\ (/\ err.t = "joinError"
            /\ Len(err.errs) = 2
            /\ ~HasMatch(err.errs[1])
            /\ err.errs[2] \in CanonicalKinds \cup Sentinels)
            => res = err.errs[2]
        /\ (/\ err.t = "joinError"
            /\ Len(err.errs) = 2
            /\ err.errs[1] \in CanonicalKinds \cup Sentinels
            /\ err.errs[2] \in CanonicalKinds \cup Sentinels)
            => res = err.errs[1]

\* C3 witness: join(ErrConflict, ErrNotFound) resolved to ErrConflict.
C3_Witness ==
    /\ op = "Resolve"
    /\ err = joinError("\n", <<ErrConflict, ErrNotFound>>)
    /\ res = ErrConflict

\* The nodes reached through a single-cause edge, and the members of joins.
SingleCauseNodes(e) == {Unwrap(n) : n \in {x \in NodeSet(e) : hasUnwrap(x)}} \ {Nil}

JoinMembers(e) ==
    UNION {{n.errs[i] : i \in 1..Len(n.errs)} : n \in {x \in NodeSet(e) : hasUnwrapAll(x)}} \ {Nil}

KindsOf(S) == UNION {NodeKinds(n) : n \in S}

RECURSIVE RootChain(_)
RootChain(e) ==
    IF e = Nil THEN <<>>
    ELSE IF hasUnwrap(e) THEN <<e>> \o RootChain(Unwrap(e))
    ELSE <<e>>

ChainHasMatch(e) == \E i \in 1..Len(RootChain(e)) : NodeKinds(RootChain(e)[i]) # {}

ChainFirstMatch(e) ==
    LET c == RootChain(e)
        i == CHOOSE k \in 1..Len(c) :
                /\ NodeKinds(c[k]) # {}
                /\ \A j \in 1..(k - 1) : NodeKinds(c[j]) = {}
    IN  c[i]

ChainEnd(e) == RootChain(e)[Len(RootChain(e))]

C5_ClosedOutputSpace ==
    op = "Resolve" =>
        IF err = Nil THEN res = Nil ELSE res \in CanonicalKinds \cup Sentinels

\* The canonical value and the capability marker of each tester.
TesterTarget(K) ==
    CASE K = "Canceled" -> Canceled
      [] K = "Unknown" -> ErrUnknown
      [] K = "InvalidArgument" -> ErrInvalidArgument
      [] K = "DeadlineExceeded" -> DeadlineExceeded
      [] K = "NotFound" -> ErrNotFound
      [] K = "AlreadyExists" -> ErrAlreadyExists
      [] K = "PermissionDenied" -> ErrPermissionDenied
      [] K = "ResourceExhausted" -> ErrResourceExhausted
      [] K = "FailedPrecondition" -> ErrFailedPrecondition
      [] K = "Conflict" -> ErrConflict
      [] K = "NotModified" -> ErrNotModified
      [] K = "Aborted" -> ErrAborted
      [] K = "OutOfRange" -> ErrOutOfRange
      [] K = "NotImplemented" -> ErrNotImplemented
      [] K = "Internal" -> ErrInternal
      [] K = "Unavailable" -> ErrUnavailable
      [] K = "DataLoss" -> ErrDataLoss
      [] K = "Unauthorized" -> ErrUnauthenticated

NoMarkerTesters ==
    {"AlreadyExists", "ResourceExhausted", "FailedPrecondition", "Aborted", "OutOfRange"}

TesterMarkers(K) ==
    IF K \in NoMarkerTesters THEN {}
    ELSE {m \in Markers : KindOfMarker(m) = TesterTarget(K)}

\* Some node of e is the canonical value of K or declares K's marker.
Present(K, e) ==
    \E n \in NodeSet(e) :
        \/ n = TesterTarget(K)
        \/ \E m \in TesterMarkers(K) : implements(n, m)

\* C6: Is<K>(t) is true iff some node of t, at any depth and through any mix
\* of edges, is the canonical value of K or declares K's marker; the five
\* kinds without a marker are matched by their canonical value only, and
\* every tester is false on nil.
C6_MembershipIffSomeNode ==
    op = "Is" => \A K \in Testers : (K \in is) <=> Present(K, err)

\* C6 witness: ErrAborted, a kind without a marker, as the second member of
\* a join under a wrapper; only IsAborted is true.
C6_Witness ==
    /\ op = "Is"
    /\ err = wrapError(<<"wrapped error">>, joinError("\n", <<Untyped, ErrAborted>>))
    /\ is = {"Aborted"}

\* The WithMessage value that e is, wraps (at any depth) or lists first in a
\* join; Nil when there is none.
RECURSIVE LeadingMessage(_)
LeadingMessage(e) ==
    IF e.t = "customMessage" THEN e
    ELSE IF e.t = "wrapError" THEN LeadingMessage(e.cause)
    ELSE IF e.t = "joinError" /\ e.errs # <<>> THEN LeadingMessage(e.errs[1])
    ELSE Nil

\* C7: e = K.WithMessage(m) differs from K, e.Error() is m, errors.Is(e, K)
\* holds and errors.Is(K, e) does not, and Resolve(e) is K, also when e is
\* wrapped further or is the first member of a join.
C7_WithMessage ==
    /\ op = "WithMessage" =>
        /\ err # arg[1]
        /\ Text(err) = arg[2]
        /\ errorsIs(err, arg[1])
        /\ ~errorsIs(arg[1], err)
    /\ (op = "Resolve" /\ LeadingMessage(err) # Nil)
        => res = LeadingMessage(err).err

\* C7 witness: join(ErrNotFound.WithMessage("something else"), ErrInternal)
\* resolved to ErrNotFound.
C7_Witness ==
    /\ op = "Resolve"
    /\ err = joinError("\n", <<customMessage(<<"something else">>, ErrNotFound), ErrInternal>>)
    /\ res = ErrNotFound

\* The order in which ToHTTP is claimed to test the kinds, with their codes.
HTTPOrder ==
    <<"NotFound", "InvalidArgument", "Conflict", "NotModified",
      "FailedPrecondition", "Unauthorized", "PermissionDenied",
      "ResourceExhausted", "Internal", "NotImplemented", "Unavailable">>

HTTPOrderCode == <<404, 400, 409, 304, 412, 401, 403, 429, 500, 501, 503>>

\* C8: ToHTTP returns the code of the kind that comes first in the fixed
\* order among the kinds present in the tree, whatever their position.
C8_HTTPPriorityOrder ==
    op = "ToHTTP" =>
        \A i \in 1..Len(HTTPOrder) :
            (/\ Present(HTTPOrder[i], err)
             /\ \A j \in 1..(i - 1) : ~Present(HTTPOrder[j], err))
                => code = HTTPOrderCode[i]

\* C8 witness: Unavailable is listed first and Internal second, one level
\* higher; the code is that of Internal.
C8_Witness ==
    /\ op = "ToHTTP"
    /\ err = joinError("\n", <<wrapError(<<"wrapped error">>, ErrUnavailable), ErrInternal>>)
    /\ code = 500

\* The table FromHTTP is claimed to implement.
HTTPTable ==
    {<<404, ErrNotFound>>, <<400, ErrInvalidArgument>>, <<409, ErrConflict>>,
     <<412, ErrFailedPrecondition>>, <<401, ErrUnauthenticated>>,
     <<403, ErrPermissionDenied>>, <<304, ErrNotModified>>,
     <<429, ErrResourceExhausted>>, <<500, ErrInternal>>,
     <<501, ErrNotImplemented>>, <<503, ErrUnavailable>>}

\* C9: FromHTTP maps the 11 codes of the table to their kinds and every other
\* code to an Unexpected-Status marker carrying that code.
C9_FromHTTPTable ==
    op = "FromHTTP" =>
        IF \E p \in HTTPTable : p[1] = code
        THEN <<code, res>> \in HTTPTable
        ELSE res = [t |-> "errUnexpectedStatus", status |-> code]

\* C9 witness: 418 is outside the table and comes back in the marker.
C9_Witness ==
    /\ op = "FromHTTP"
    /\ code = 418
    /\ res.t = "errUnexpectedStatus"
    /\ res.status = 418

\* C10: FromHTTP(ToHTTP(K)) is K, with the same Error() text, for the 11
\* kinds with an HTTP code, and ErrInternal for an error matching no kind.
C10_HTTPRoundTrip ==
    op = "HTTPRoundTrip" =>
        /\ err \in {p[2] : p \in HTTPTable} => (res = err /\ Text(res) = Text(err))
        /\ (\A K \in Testers : ~Present(K, err)) => res = ErrInternal

\* C10 witness: ErrUnauthenticated goes to 401 and comes back.
C10_Witness ==
    /\ op = "HTTPRoundTrip"
    /\ err = ErrUnauthenticated
    /\ code = 401
    /\ res = ErrUnauthenticated

\* C11: ToHTTP(FromHTTP(c)) is c for the 11 codes of the table and for every
\* other c in [200,600); ToHTTP is 500 for a marker with a status outside
\* [200,600), for nil, and for every tree that matches none of the 11 mapped
\* kinds and holds no marker with a status in [200,600).
C11_HTTPCodeRoundTrip ==
    /\ op = "ToHTTP(FromHTTP)" =>
        IF (\E p \in HTTPTable : p[1] = arg[1]) \/ (arg[1] >= 200 /\ arg[1] < 600)
        THEN code = arg[1]
        ELSE code = 500
    /\ (/\ op = "ToHTTP"
        /\ \A i \in 1..Len(HTTPOrder) : ~Present(HTTPOrder[i], err)
        /\ \A n \in NodeSet(err) :
            n.t = "errUnexpectedStatus" => (n.status < 200 \/ n.status >= 600))
        => code = 500

\* C11 witness: 418 has no kind, FromHTTP keeps it in a marker and ToHTTP
\* gives it back.
C11_Witness ==
    /\ op = "ToHTTP(FromHTTP)"
    /\ arg = <<418>>
    /\ err = [t |-> "errUnexpectedStatus", status |-> 418]
    /\ code = 418

\* The RPC code of a resolved kind.
CodeOfKind(k) ==
    IF k = ErrInvalidArgument THEN "InvalidArgument"
    ELSE IF k = ErrNotFound THEN "NotFound"
    ELSE IF k = ErrAlreadyExists THEN "AlreadyExists"
    ELSE IF k \in {ErrFailedPrecondition, ErrConflict, ErrNotModified}
        THEN "FailedPrecondition"
    ELSE IF k = ErrUnavailable THEN "Unavailable"
    ELSE IF k = ErrNotImplemented THEN "Unimplemented"
    ELSE IF k = Canceled THEN "Canceled"
    ELSE IF k = DeadlineExceeded THEN "DeadlineExceeded"
    ELSE IF k = ErrUnauthenticated THEN "Unauthenticated"
    ELSE IF k = ErrPermissionDenied THEN "PermissionDenied"
    ELSE IF k = ErrInternal THEN "Internal"
    ELSE IF k = ErrDataLoss THEN "DataLoss"
    ELSE IF k = ErrAborted THEN "Aborted"
    ELSE IF k = ErrOutOfRange THEN "OutOfRange"
    ELSE IF k = ErrResourceExhausted THEN "ResourceExhausted"
    ELSE "Unknown"

\* C12: for every non-nil error that is not a status, the code of the status
\* ToGRPC builds is the RPC code of Resolve(err): it depends on no kind of
\* the tree but the one Resolve selects, so join(K1, K2) has K1's code.
C12_CodeOfResolvedKind ==
    (op = "ToGRPC" /\ err # Nil) =>
        /\ gerr.t = "status"
        /\ gerr.code = CodeOfKind(Resolve(err))

\* C12 witness: join(ErrConflict, ErrNotFound) has the code of Conflict,
\* although the test for NotFound comes first in errorCode.
C12_Witness ==
    /\ op = "ToGRPC"
    /\ err = joinError("\n", <<ErrConflict, ErrNotFound>>)
    /\ gerr.code = "FailedPrecondition"

\* C13: for every canonical kind K and both sentinels, and e either K or K
\* wrapped as "<text>: %w", r = ToNative(ToGRPC(e)) satisfies errors.Is(r, K)
\* and has the text of e; context.Canceled comes back with the text
\* "context canceled". ToGRPC is the one of errgrpc or the one of errdefs.
C13_GRPCRoundTrip ==
    (op = "ToNative" /\ err # Nil) =>
        LET K == IF err.t = "wrapError" THEN err.cause ELSE err
        IN  K \in CanonicalKinds \cup Sentinels =>
                /\ errorsIs(res, K)
                /\ Text(res) = Text(err)
                /\ err = Canceled => Text(res) = <<"context canceled">>

\* C13 witness: "wrapped error: conflict" travels with code
\* FailedPrecondition and its details and comes back as a wrapper of
\* ErrConflict.
C13_Witness ==
    /\ op = "ToNative"
    /\ err = wrapError(<<"wrapped error">>, ErrConflict)
    /\ gerr.code = "FailedPrecondition"
    /\ Len(gerr.details) = 2
    /\ res = wrapError(<<"wrapped error">>, ErrConflict)

\* s occurs in the text t.
Contains(t, s) ==
    \E i \in 0..(Len(t) - Len(s)) : SubSeq(t, i + 1, i + Len(s)) = s

\* C14: for every join of two or more members, the error rebuilt from
\* ToGRPC's status satisfies the tester of every kind present in a member,
\* does not satisfy IsFailedPrecondition when no member holds
\* ErrFailedPrecondition, and has the free text of the members in its text.
C14_MultiJoinRoundTrip ==
    (/\ op \in {"ToNative", "FromGRPC"}
     /\ err.t = "joinError"
     /\ Len(err.errs) >= 2
     /\ gerr = ToGRPC(err))
    => /\ \A K \in Testers : Present(K, err) => Is(K, res)
       /\ ~Present("FailedPrecondition", err) => ~Is("FailedPrecondition", res)
       /\ \A i \in 1..Len(err.errs) :
            err.errs[i].t = "wrapError" => Contains(Text(res), err.errs[i].msg)

\* The details of a received status that decode as nested statuses.
IsNestedStatus(detail) == detail.typeUrl = StatusURL /\ detail.bytesOK

\* C15: the children decoded from details 1..N stay reachable from the
\* rebuilt error: one decoded child is returned by its Unwrap() error, two
\* or more are returned, in order, by its Unwrap() []error.
C15_ChildrenReattached ==
    (op = "FromGRPC" /\ gerr.t = "status" /\ Len(gerr.details) > 1) =>
        LET children == fromGRPCProtoRange(SelectSeq(Tail(gerr.details), IsNestedStatus))
        IN  /\ Len(children) = 1 => (hasUnwrap(res) /\ Unwrap(res) = children[1])
            /\ Len(children) >= 2 => (hasUnwrapAll(res) /\ res.errs = children)

\* The direct causes of an error value, in order.
DirectCauses(e) ==
    IF e.t = "joinError" THEN e.errs
    ELSE IF e.t = "customMessage" THEN <<e.err>>
    ELSE IF e.t \in {"wrapError", "typed"} /\ e.cause # Nil THEN <<e.cause>>
    ELSE <<>>

\* p is the status of e: its message is e's text, it has one detail and one
\* more per direct cause of e, each the status of that cause.
RECURSIVE IsStatusOf(_, _)
IsStatusOf(p, e) ==
    /\ p.message = Text(e)
    /\ Len(p.details) = 1 + Len(DirectCauses(e))
    /\ \A i \in 1..Len(DirectCauses(e)) :
        /\ IsNestedStatus(p.details[i + 1])
        /\ IsStatusOf(p.details[i + 1].value, DirectCauses(e)[i])

\* C16: the status ToGRPC builds for a non-status error has err.Error() as
\* message and 1 + (number of direct causes) details; details 1..n are the
\* statuses of the direct causes in order, built the same way.
C16_DetailPerDirectCause ==
    (op = "ToGRPC" /\ err # Nil) => IsStatusOf(gerr, err)

\* C16 witness: a join of ErrNotFound and a wrapper of ErrInternal has three
\* details, and the detail of the wrapper has two of its own.
C16_Witness ==
    /\ op = "ToGRPC"
    /\ err = joinError("\n", <<ErrNotFound, wrapError(<<"wrapped error">>, ErrInternal)>>)
    /\ Len(gerr.details) = 3
    /\ Len(gerr.details[2].value.details) = 1
    /\ Len(gerr.details[3].value.details) = 2

\* C17: detail 0 of the status ToGRPC builds is the serialization of the
\* error value itself, so that the receiver, when the type is registered,
\* rebuilds the node from the decoded value with its type.
C17_FirstDetailIsTheError ==
    /\ (op = "ToGRPC" /\ err # Nil) => gerr.details[1].value = err
    /\ (/\ op = "FromGRPC"
        /\ gerr.t = "status"
        /\ Len(gerr.details) = 1
        /\ gerr.details[1].typeUrl \in RegisteredURLs)
        => res = gerr.details[1].value

\* C18: FromGRPC returns a non-nil error for every status, with the text of
\* the status message or of the decoded first detail; the details that do
\* not decode as nested statuses are passed over, the result being the one
\* of the status without them; an error that is not a status is returned
\* as it is.
C18_DecodeNeverFails ==
    op = "FromGRPC" =>
        /\ gerr # Nil => res # Nil
        /\ gerr.t \notin {"status", "nil"} => res = gerr
        /\ gerr.t = "status" =>
            /\ Text(res) =
                IF /\ gerr.details # <<>>
                   /\ gerr.details[1].typeUrl \in RegisteredURLs
                   /\ gerr.details[1].bytesOK
                THEN Text(gerr.details[1].value)
                ELSE gerr.message
            /\ Len(gerr.details) > 1 =>
                res = FromGRPC([gerr EXCEPT !.details =
                        <<gerr.details[1]>> \o SelectSeq(Tail(gerr.details), IsNestedStatus)])

\* C18 witness: the first detail does not unmarshal, the second has an
\* unknown type, the third is a nested status and is the cause of the
\* result.
C18_Witness ==
    /\ op = "FromGRPC"
    /\ gerr.t = "status"
    /\ gerr.message = <<"something else">>
    /\ Len(gerr.details) = 3
    /\ ~gerr.details[1].bytesOK
    /\ gerr.details[2].typeUrl = "unregistered"
    /\ res = grpcWrapError(errorString(<<"something else">>), errorString(<<"first">>))

\* C19: for code FailedPrecondition ToNative chooses the class from the
\* message alone: ErrConflict when it is "conflict" or ends with
\* ": conflict", else ErrNotModified when it is "not modified" or ends with
\* ": not modified", else ErrFailedPrecondition.
C19_FailedPreconditionByMessage ==
    (op = "ToNative" /\ gerr.t = "status" /\ gerr.code = "FailedPrecondition") =>
        LET desc == gerr.message
            cls == IF desc = <<"conflict">> \/ HasSuffix(desc, <<": ", "conflict">>)
                       THEN ErrConflict
                   ELSE IF desc = <<"not modified">>
                           \/ HasSuffix(desc, <<": ", "not modified">>)
                       THEN ErrNotModified
                   ELSE ErrFailedPrecondition
        IN  \/ res = cls
            \/ res.t = "wrapError" /\ res.cause = cls

\* C19 witness: "something else: not modified" gives a wrapper of
\* ErrNotModified.
C19_Witness ==
    /\ op = "ToNative"
    /\ gerr = statusError("FailedPrecondition", <<"something else", ": ", "not modified">>)
    /\ res = wrapError(<<"something else">>, ErrNotModified)

\* C20: an Unexpected-Status marker with a status in [200,600), alone or
\* under a message prefix, comes back from ToNative(ToGRPC(e)) as an error
\* that errors.Is the marker, has the text of e and gives the status again
\* under ToHTTP.
C20_UnexpectedStatusRoundTrip ==
    (op = "ToNative" /\ err # Nil) =>
        LET marker == IF err.t = "wrapError" THEN err.cause ELSE err
        IN  (marker.t = "errUnexpectedStatus" /\ marker.status >= 200 /\ marker.status < 600)
            => /\ errorsIs(res, marker)
               /\ Text(res) = Text(err)
               /\ ToHTTP(res) = marker.status

\* C21: ToGRPC returns nil for nil and the very same value for an error that
\* is a gRPC status already, in both packages, so applying it to its own
\* result changes nothing; ToNative(nil) is nil.
C21_ToGRPCPassthrough ==
    /\ op \in {"ToGRPC", "errdefs.ToGRPC"} /\ err = Nil => gerr = Nil
    /\ op \in {"ToGRPC(gerr)", "errdefs.ToGRPC(gerr)"}
           /\ (gerr = Nil \/ isGRPCError(gerr))
        => res = gerr
    /\ op = "ToNative" /\ gerr = Nil => res = Nil

C21_Witness ==
    /\ op \in {"ToGRPC(gerr)", "errdefs.ToGRPC(gerr)"}
    /\ err # Nil
    /\ isGRPCError(gerr)
    /\ Len(gerr.message) > 1
    /\ res = gerr

\* The class ToNative chooses for the status given to it, and its message.
GivenDesc == errDesc(gerr)

GivenClass == class(grpcCode(gerr), GivenDesc)

IsOrWraps(r, cls) == r = cls \/ (r.t = "wrapError" /\ r.cause = cls)

C26_RoundTripStable ==
    op \in {"GRPCRoundTripTwice", "errdefs.GRPCRoundTripTwice"} =>
        /\ Text(res) = Text(err)
        /\ {K \in Testers : Is(K, res)} = {K \in Testers : Is(K, err)}

C26_Witness ==
    /\ op \in {"GRPCRoundTripTwice", "errdefs.GRPCRoundTripTwice"}
    /\ arg[1].t = "joinError"
    /\ Text(err) # Text(arg[1])
    /\ {K \in Testers : Is(K, err)} # {K \in Testers : Is(K, arg[1])}
    /\ Text(res) = Text(err)
    /\ {K \in Testers : Is(K, res)} # {}

\* C28: every canonical kind has its own text: the text of a kind a caller
\* holds is the text of no other kind.
C28_OneTextPerKind ==
    Building /\ err \in CanonicalKinds =>
        \A k \in CanonicalKinds : k # err => Text(k) # Text(err)

\* The tester of the canonical kind or sentinel k.
TesterOf(k) == CHOOSE K \in Testers : TesterTarget(K) = k

\* C29: Resolve and the testers agree: when Resolve(t) is a canonical kind
\* other than Unknown, or a sentinel, the tester of that kind is true on t;
\* when every tester is false on t, Resolve(t) is Unknown.
C29_ResolveAgreesWithTesters ==
    op = "Resolve" /\ err # Nil =>
        /\ res \in (CanonicalKinds \ {ErrUnknown}) \cup Sentinels
               => Is(TesterOf(res), err)
        /\ (\A K \in Testers : ~Is(K, err)) => res = ErrUnknown

\* The arguments of the call of Join or WithStack that gave err.
JoinArgs == IF op = "WithStack" THEN <<arg[1]>> ELSE arg

JoinOps == {"stack.Join", "pkg.Join", "WithStack"}

IsPrefix(p, t) == Len(p) <= Len(t) /\ SubSeq(t, 1, Len(p)) = p

ContainsSeq(t, sub) == \E i \in 0..(Len(t) - Len(sub)) : SubSeq(t, i + 1, i + Len(sub)) = sub

\* The stack nodes that are members of the join e itself.
TopStacks(e) ==
    IF e.t \in {"errdefsJoinError", "collapsedError"}
    THEN SelectSeq(e.errs, LAMBDA m : isCollapsible(m))
    ELSE <<>>

PackageFunctions ==
    {"runtime.Callers", "stack.callers", "stack.Callers", "stack.joinErrors",
     "stack.Join", "stack.WithStack", "stack.ErrStack"}

\* The calls of Join and WithStack with one non-collapsible error and, at
\* most, stack nodes beside it.
OneErrorJoined ==
    /\ op \in JoinOps
    /\ arg[1] # Nil
    /\ ~isCollapsible(arg[1])
    /\ \A i \in 2..Len(JoinArgs) : JoinArgs[i] = Nil \/ isCollapsible(JoinArgs[i])

\* The stack members of err are printed under %+v only, with their frames,
\* which start at the caller of the package.
StackMembersVerboseOnly ==
    /\ ~hasStackRange(JoinArgs) => TopStacks(err) # <<>>
    /\ \A i \in 1..Len(TopStacks(err)) :
         LET tr == buildTrace(heap, TopStacks(err)[i], osArgs)
         IN  /\ ContainsSeq(FormatV(err, TRUE), framesText(tr.Frames))
             /\ ~ContainsSeq(FormatV(err, FALSE), <<"app.go">>)
             /\ \A k \in 1..Len(tr.Frames) : tr.Frames[k].Name \notin PackageFunctions
             /\ TopStacks(err)[i].helpers = NilSlice
                    => /\ tr.Frames # <<>>
                       /\ tr.Frames[1].Line < pcRuntimeCallers
                       /\ tr.Frames[Len(tr.Frames)].Name = "main.main"

\* C22: for a non-collapsible err, Join(err), Join(err, ErrStack()) and
\* WithStack(ctx, err) have the Error() text of err and print it under %v;
\* the stack members are printed under %+v only, where the output starts
\* with the text of err and holds the captured frames.
C22_StackCollapsed ==
    OneErrorJoined
    => /\ Text(err) = Text(arg[1])
       /\ FormatV(err, FALSE) = Text(arg[1])
       /\ IsPrefix(Text(arg[1]), FormatV(err, TRUE))
       /\ StackMembersVerboseOnly

\* C22, amended: the same, but the %+v output starts with what %+v prints
\* for err, which is the text of err when err holds no stack node.
C22_StackCollapsedVerbose ==
    OneErrorJoined
    => /\ Text(err) = Text(arg[1])
       /\ FormatV(err, FALSE) = Text(arg[1])
       /\ IsPrefix(FormatV(arg[1], TRUE), FormatV(err, TRUE))
       /\ ~hasStack(arg[1]) => IsPrefix(Text(arg[1]), FormatV(err, TRUE))
       /\ StackMembersVerboseOnly

C22_Witness ==
    /\ op = "stack.Join"
    /\ arg = <<errorString(<<"some error">>)>>
    /\ Text(err) = <<"some error">>
    /\ Len(FormatV(err, TRUE)) > 10
    /\ Len(TopStacks(err)) = 1

\* C23: Join and WithStack add one fresh stack node when no argument carries
\* one, and none when an argument does: a non-nil result has as many stack
\* nodes as the arguments, or one.
C23_OneStackAdded ==
    op \in JoinOps /\ err # Nil =>
        LET given == Len(stackNodesRange(JoinArgs))
        IN  Len(stackNodes(err)) = IF given = 0 THEN 1 ELSE given

C23_Witness ==
    /\ op \in {"stack.Join", "pkg.Join"}
    /\ arg[1].t = "wrapError"
    /\ Len(stackNodes(arg[1])) = 1
    /\ Len(arg) = 1
    /\ stackNodes(err) = stackNodes(arg[1])

\* The frames of the counters pcs, in order.
FramesOf(pcs) == [i \in 1..Len(pcs) |-> Frame(pcs[i])]

\* C27: the trace of a stack captured by WithStack under a context on which
\* WithHelper was called from H1..Hn holds the frames of the captured stack,
\* in order, without those of the functions H1..Hn; without WithHelper it
\* holds them all.
C27_HelpersElided ==
    op = "WithStack" /\ trace # NoTrace /\ ~hasLocalStackTrace(arg[1]) =>
        LET H == {FuncName(arg[2][i]) : i \in 1..Len(arg[2])}
        IN  trace.Frames = SelectSeq(FramesOf(arg[3]), LAMBDA f : f.Name \notin H)

\* The trace of the node read: the frames of its callers that are of no
\* helper of the context it was captured under.
FullTrace ==
    Trace(Version, Revision, osArgs,
          decodeFrames(err.callers, helperFunctions(arg[1])), Pid)

\* C24: with several goroutines inside getDecoded of one stack node, every
\* call returns a fully built trace, never nil and never a partial one; all
\* calls return the same content; once a call has returned, s.decoded is
\* not nil and a later call of the same goroutine builds no trace.
C24_ConcurrentDecode ==
    op = "decode" =>
        /\ \A g \in Readers :
            /\ readers[g].calls > 0 => readers[g].ret = FullTrace
            /\ ~readers[g].recomputed
        /\ \A g, h \in Readers :
            readers[g].calls > 0 /\ readers[h].calls > 0 => readers[g].ret = readers[h].ret
        /\ (\E g \in Readers : readers[g].calls > 0)
               => decoded # 0 /\ traces[decoded] = FullTrace

\* C30: UnmarshalJSON of the bytes MarshalJSON gave for a stack node
\* terminates without calling itself, and the receiving node then holds a
\* trace equal to that of the node, which a later read returns without
\* decoding.
C30_JSONRoundTrip ==
    op = "decode" =>
        /\ js.state # "fatal"
        /\ js.depth <= 1
        /\ js.state \in {"done", "read"} => js.recv = traces[decoded]
        /\ ~js.redecoded

====
